---- MODULE Spec2Model ----
(***************************************************************************)
(* A model of part2_agent.py: the resolution pipeline that takes a job     *)
(* posting (or a listing of postings) to a row                             *)
(*   (company_name, company_website, career_page, job_url).                *)
(*                                                                         *)
(* URLs, page texts and company names are strings; the helpers of the      *)
(* program (urlparse, urljoin, str.lower, str.strip, re.sub, re.search)    *)
(* are computed on them character by character.  The network is a fixed    *)
(* table of pages and redirects (Web, Redirect) of which a chosen set of   *)
(* URLs is failing at the time of a call.                                  *)
(***************************************************************************)
EXTENDS Integers, Sequences, FiniteSets, TLC

\* Python's None, kept apart from the empty string.
None == "<None>"

\* Python truthiness of an optional string: `if x` / `x or y`.
Truthy(x) == x # None /\ x # ""

\* `a or b` on optional strings.
Or(a, b) == IF Truthy(a) THEN a ELSE b

(***************************************************************************)
(* Strings                                                                 *)
(***************************************************************************)
\* s[i:] (1-based i)
From(s, i) == IF i > Len(s) THEN "" ELSE SubSeq(s, i, Len(s))

\* s[:n]
Take(s, n) == IF n <= 0 THEN "" ELSE IF n >= Len(s) THEN s ELSE SubSeq(s, 1, n)

\* s.startswith(p)
StartsWith(s, p) == Len(p) <= Len(s) /\ SubSeq(s, 1, Len(p)) = p

\* s.find(sub, from) as a 1-based index, 0 when sub does not occur
Find(s, sub, from) ==
    LET hits == {i \in from..(Len(s) - Len(sub) + 1) : SubSeq(s, i, i + Len(sub) - 1) = sub}
    IN IF hits = {} THEN 0 ELSE CHOOSE i \in hits : \A j \in hits : i <= j

\* `sub in s`
Contains(s, sub) == Find(s, sub, 1) # 0

\* any(k in s for k in keys)
AnyIn(keys, s) == \E i \in 1..Len(keys) : Contains(s, keys[i])

Upper == <<"A","B","C","D","E","F","G","H","I","J","K","L","M",
           "N","O","P","Q","R","S","T","U","V","W","X","Y","Z">>
LowerOf == <<"a","b","c","d","e","f","g","h","i","j","k","l","m",
             "n","o","p","q","r","s","t","u","v","w","x","y","z">>

LowerChar(c) ==
    LET hits == {i \in 1..Len(Upper) : Upper[i] = c}
    IN IF hits = {} THEN c ELSE LowerOf[CHOOSE i \in hits : TRUE]

\* str.lower()
RECURSIVE Lower(_)
Lower(s) ==
    IF Len(s) <= 1 THEN LowerChar(s)
    ELSE Lower(Take(s, Len(s) \div 2)) \o Lower(From(s, Len(s) \div 2 + 1))

\* the characters of s that are in keep, in order
RECURSIVE Filter(_, _)
Filter(s, keep) ==
    IF s = "" THEN ""
    ELSE IF Len(s) = 1 THEN (IF s \in keep THEN s ELSE "")
    ELSE Filter(Take(s, Len(s) \div 2), keep) \o Filter(From(s, Len(s) \div 2 + 1), keep)

\* str.strip() (blanks only)
RECURSIVE LStrip(_)
LStrip(s) == IF s # "" /\ SubSeq(s, 1, 1) = " " THEN LStrip(From(s, 2)) ELSE s
RECURSIVE RStrip(_)
RStrip(s) == IF s # "" /\ SubSeq(s, Len(s), Len(s)) = " " THEN RStrip(Take(s, Len(s) - 1)) ELSE s
Strip(s) == RStrip(LStrip(s))

\* the characters re.sub(r"[^a-z0-9\-\.]", "", ...) keeps
SlugChars == {"a","b","c","d","e","f","g","h","i","j","k","l","m",
              "n","o","p","q","r","s","t","u","v","w","x","y","z",
              "0","1","2","3","4","5","6","7","8","9","-","."}

(***************************************************************************)
(* URLs                                                                    *)
(***************************************************************************)
\* urlparse(url).scheme, for the schemes the model uses
Scheme(url) ==
    IF StartsWith(url, "https:") THEN "https"
    ELSE IF StartsWith(url, "http:") THEN "http"
    ELSE ""

\* the first index >= from of a character of stops in s, Len(s)+1 when none
FirstOf(s, stops, from) ==
    LET hits == {i \in from..Len(s) : SubSeq(s, i, i) \in stops}
    IN IF hits = {} THEN Len(s) + 1 ELSE CHOOSE i \in hits : \A j \in hits : i <= j

\* urlparse(url).netloc: what follows "//" up to the next "/", "?" or "#"
Netloc(url) ==
    LET rest == IF Scheme(url) = "" THEN url ELSE From(url, Len(Scheme(url)) + 2)
    IN IF StartsWith(rest, "//")
       THEN SubSeq(rest, 3, FirstOf(rest, {"/", "?", "#"}, 3) - 1)
       ELSE ""

\* f"{parsed.scheme}://{parsed.netloc}"
Origin(url) == Scheme(url) \o "://" \o Netloc(url)

\* urlparse(url).path
Path(url) ==
    LET rest == IF Scheme(url) = "" THEN url ELSE From(url, Len(Scheme(url)) + 2)
        p    == IF StartsWith(rest, "//") THEN From(rest, FirstOf(rest, {"/", "?", "#"}, 3)) ELSE rest
    IN Take(p, FirstOf(p, {"?", "#"}, 1) - 1)

\* the last index of "/" in s, 0 when none
LastSlash(s) ==
    LET hits == {i \in 1..Len(s) : SubSeq(s, i, i) = "/"}
    IN IF hits = {} THEN 0 ELSE CHOOSE i \in hits : \A j \in hits : i >= j

\* whether href carries a scheme of its own ("http:", "javascript:", ...)
HasScheme(href) ==
    LET c == Find(href, ":", 1)
    IN c > 1 /\ FirstOf(href, {"/", "?", "#"}, 1) > c

\* urlparse(url).query and urlparse(url).fragment
Query(url) ==
    IF FirstOf(url, {"?"}, 1) < FirstOf(url, {"#"}, 1)
    THEN SubSeq(url, FirstOf(url, {"?"}, 1) + 1, FirstOf(url, {"#"}, 1) - 1)
    ELSE ""
Fragment(url) == From(url, FirstOf(url, {"#"}, 1) + 1)

\* urlunparse of an http(s) URL: an empty query or fragment loses its "?" or "#"
Unsplit(scheme, netloc, path, query, fragment) ==
    scheme \o "://" \o netloc
      \o (IF path # "" /\ ~StartsWith(path, "/") THEN "/" ELSE "") \o path
      \o (IF query # "" THEN "?" \o query ELSE "")
      \o (IF fragment # "" THEN "#" \o fragment ELSE "")

\* the directory of a path: what comes before its last segment
Dir(path) == IF path = "" THEN "/" ELSE Take(path, LastSlash(path))

\* urljoin(base, href) once the reference is taken apart: the base gives the
\* host, the path and the query the reference has none of, and urlunparse
\* puts the parts together again
join_parts(base, scheme, netloc, path, query, fragment) ==
    IF netloc # "" THEN Unsplit(scheme, netloc, path, query, fragment)
    ELSE IF path = ""
    THEN Unsplit(scheme, Netloc(base), Path(base),
                 IF query = "" THEN Query(base) ELSE query, fragment)
    ELSE IF StartsWith(path, "/") THEN Unsplit(scheme, Netloc(base), path, query, fragment)
    ELSE Unsplit(scheme, Netloc(base), Dir(Path(base)) \o path, query, fragment)

\* urljoin(base, href) for an href with a scheme: one of another scheme than
\* the base's is returned as it is
join_absolute(base, href) ==
    IF Scheme(href) = "" \/ Scheme(href) # Scheme(base) THEN href
    ELSE join_parts(base, Scheme(href), Netloc(href), Path(href), Query(href), Fragment(href))

\* urllib.parse.urljoin(base, href) for absolute, protocol-relative,
\* root-relative and plain relative references (no dot segments)
UrlJoin(base, href) ==
    IF href = "" THEN base
    ELSE IF HasScheme(href) THEN join_absolute(base, href)
    ELSE join_parts(base, Scheme(base), Netloc(href), Path(href), Query(href), Fragment(href))

(***************************************************************************)
(* Configuration (part2_agent.py, "Config")                                *)
(***************************************************************************)
CAREER_KEYWORDS == <<"career", "careers", "jobs", "join", "vacancies", "openings", "join-us", "work-with-us">>
JOB_KEYWORDS == <<"job", "position", "apply", "opening", "/jobs/", "/open-positions/">>
ATS_HOSTS == <<"lever.co", "greenhouse.io", "workday.com", "smartrecruiters.com", "apply.workable.com", "jobvite.com">>

(***************************************************************************)
(* Domain helpers                                                          *)
(***************************************************************************)
\* is_linkedin_domain(url)
is_linkedin_domain(url) ==
    IF ~Truthy(url) THEN FALSE
    ELSE LET host == Lower(Netloc(url))
         IN Contains(host, "linkedin.com") \/ Contains(host, "lnkd.in")

\* normalize_url(base, href)
normalize_url(base, href) ==
    IF ~Truthy(href) THEN None
    ELSE LET h == Strip(href)
         IN IF StartsWith(h, "#") \/ StartsWith(Lower(h), "javascript:") \/ StartsWith(Lower(h), "mailto:")
            THEN None
            ELSE IF StartsWith(h, "//")
            THEN (IF Scheme(base) # "" THEN Scheme(base) ELSE "https") \o ":" \o h
            ELSE UrlJoin(base, h)

\* is_ats_url(url)
is_ats_url(url) ==
    IF ~Truthy(url) THEN FALSE
    ELSE AnyIn(ATS_HOSTS, Lower(Netloc(url)))

(***************************************************************************)
(* Pages.  A parsed document: the og:site_name content, the <title>, the   *)
(* remaining text, the anchors with an href in document order (footer:     *)
(* inside the <footer> element) and the inline scripts.                    *)
(***************************************************************************)
Anchor(href, txt) == [href |-> href, txt |-> txt, footer |-> FALSE]
FooterAnchor(href, txt) == [href |-> href, txt |-> txt, footer |-> TRUE]

RECURSIVE AnchorsText(_)
AnchorsText(as) ==
    IF as = <<>> THEN ""
    ELSE " " \o Head(as).href \o " " \o Head(as).txt \o AnchorsText(Tail(as))

RECURSIVE Joined(_)
Joined(ss) == IF ss = <<>> THEN "" ELSE " " \o Head(ss) \o Joined(Tail(ss))

\* r.text: the markup of the document, which holds all of its parts
Text(meta, title, body, anchors, scripts) ==
    (IF meta = None THEN "" ELSE meta) \o " "
    \o (IF title = None THEN "" ELSE title) \o " "
    \o body \o AnchorsText(anchors) \o Joined(scripts)

\* a response: the parsed document and lower, its r.text.lower()
Page(meta, title, body, anchors, scripts) ==
    [ok |-> TRUE, meta |-> meta, title |-> title, body |-> body,
     anchors |-> anchors, scripts |-> scripts,
     lower |-> Lower(Text(meta, title, body, anchors, scripts))]

\* a failed fetch or render: safe_get's None
NoResponse ==
    [ok |-> FALSE, meta |-> None, title |-> None, body |-> "",
     anchors |-> <<>>, scripts |-> <<>>, lower |-> ""]

\* first_external_link(soup, avoid_domain); avoid = None when not given
RECURSIVE first_external_link(_, _)
first_external_link(as, avoid) ==
    IF as = <<>> THEN None
    ELSE LET href == Strip(Head(as).href)
         IN IF StartsWith(href, "http") /\ (~Truthy(avoid) \/ ~Contains(href, avoid))
            THEN href
            ELSE first_external_link(Tail(as), avoid)

(***************************************************************************)
(* The network: the pages that exist, by final URL, and the redirects.     *)
(* A URL without a page of its own and without a redirect does not answer. *)
(***************************************************************************)
WebURLs ==
    {"https://www.acme.com", "https://www.acme.com/careers",
     "https://www.beta.io", "https://www.beta.io/team", "https://www.beta.io/openings",
     "https://www.gamma.org", "https://www.gamma.org/work-with-us",
     "https://www.delta.dev", "https://jobs.lever.co/delta",
     "https://www.epsilon.co", "https://www.epsilon.co/jobs",
     "https://www.linkedin.com", "https://www.linkedin.com/jobs",
     "https://www.linkedin.com/company/beta", "https://www.linkedin.com/company/beta/jobs",
     "https://www.linkedin.com/company/epsilon/jobs"}

PageAt(u) ==
    CASE u = "https://www.acme.com" ->
           Page(None, "Acme", "we build things",
                <<Anchor("/about", "About"), Anchor("/careers", "Careers")>>, <<>>)
      [] u = "https://www.acme.com/careers" ->
           Page(None, "Acme Careers", "come and build with us",
                <<Anchor("#top", "Jobs"), Anchor(" /jobs/123 ", "Senior Engineer - Apply")>>, <<>>)
      [] u = "https://www.beta.io" ->
           Page(None, "Beta", "beta home",
                <<Anchor("https://www.linkedin.com/company/beta/jobs", "Careers"),
                  Anchor("/team", "Join us")>>, <<>>)
      [] u = "https://www.beta.io/team" ->
           Page(None, "Team", "we are hiring, see our openings",
                <<Anchor("mailto:jobs@beta.io", "Apply by mail")>>, <<>>)
      [] u = "https://www.beta.io/openings" ->
           Page(None, "Openings", "the job list", <<>>, <<>>)
      [] u = "https://www.gamma.org" ->
           Page(None, "Gamma", "gamma home",
                <<Anchor("/products", "Products"),
                  FooterAnchor("/work-with-us", "Work with us")>>, <<>>)
      [] u = "https://www.gamma.org/work-with-us" ->
           Page(None, "Gamma", "loading", <<>>, <<>>)
      [] u = "https://www.delta.dev" ->
           Page(None, "Delta", "delta home", <<Anchor("/blog", "Blog"), FooterAnchor("/join", "Join")>>,
                <<"var a='https://boards.greenhouse.io/delta'; var b='https://jobs.lever.co/delta';">>)
      [] u = "https://jobs.lever.co/delta" ->
           Page(None, "Delta", "", <<>>, <<>>)
      [] u = "https://www.epsilon.co" ->
           Page(None, "Epsilon", "epsilon home", <<>>, <<>>)
      [] u = "https://www.epsilon.co/jobs" ->
           Page(None, "Epsilon", "our roles are posted on linkedin",
                <<Anchor("https://www.linkedin.com/jobs/view/5", "View job")>>, <<>>)
      [] u = "https://www.linkedin.com" ->
           Page("LinkedIn", "LinkedIn", "welcome", <<Anchor("/jobs", "Jobs")>>, <<>>)
      [] u = "https://www.linkedin.com/jobs" ->
           Page("LinkedIn", "LinkedIn", "search jobs", <<>>, <<>>)
      [] u = "https://www.linkedin.com/company/beta" ->
           Page("LinkedIn", "Beta | LinkedIn", "beta on linkedin", <<>>, <<>>)
      [] u = "https://www.linkedin.com/company/beta/jobs" ->
           Page("LinkedIn", "Beta | LinkedIn", "beta jobs", <<>>, <<>>)
      [] u = "https://www.linkedin.com/company/epsilon/jobs" ->
           Page("LinkedIn", "Epsilon | LinkedIn", "epsilon jobs",
                <<Anchor("/jobs/view/999", "Engineer")>>, <<>>)
      [] OTHER -> NoResponse

\* the table of the pages, and the page a final URL answers with
Web == [u \in WebURLs |-> PageAt(u)]
WebPage(u) == IF u \in WebURLs THEN Web[u] ELSE NoResponse

\* where a URL leads after its redirects (r.url of a request that follows them)
Redirect(u) ==
    CASE u = "https://lnkd.in/acme" -> "https://www.acme.com"
      [] u = "https://bit.ly/cmp" -> "https://www.linkedin.com/company/beta"
      [] u = "https://www.epsilon.co/careers" -> "https://www.linkedin.com/company/epsilon/jobs"
      [] OTHER -> u

\* hosts that answer a HEAD request with an error status
RejectsHead == {"www.gamma.org"}

\* One request of the program, as logged: the loop or call that made it, the
\* method, the URL asked for and the response (a page for a successful GET).
Req(why, u, r) == [why |-> why, m |-> "GET", u |-> u, ok |-> r.ok, page |-> r]

\* A request of resolve_final_url, which reads no more than r.url.
Probe(m, u, ok) == [why |-> "resolve", m |-> m, u |-> u, ok |-> ok, page |-> NoResponse]

\* what a call returns together with the requests it made
Ret(val, log) == [val |-> val, log |-> log]

\* safe_get(url): the page at the end of the redirects, or NoResponse when the
\* URL does not answer or is failing (down) for all of the attempts
safe_get(url, down) ==
    IF Redirect(url) \in down THEN NoResponse ELSE WebPage(Redirect(url))

\* a variant that gives up with None when both requests fail
resolve_or_none(url, down) ==
    IF ~Truthy(url) THEN Ret(None, <<>>)
    ELSE IF WebPage(Redirect(url)).ok /\ Redirect(url) \notin down
    THEN (IF Netloc(Redirect(url)) \notin RejectsHead
          THEN Ret(Redirect(url), <<Probe("HEAD", url, TRUE)>>)
          ELSE Ret(Redirect(url), <<Probe("HEAD", url, FALSE), Probe("GET", url, TRUE)>>))
    ELSE Ret(None, <<Probe("HEAD", url, FALSE), Probe("GET", url, FALSE)>>)

\* resolve_final_url(url): HEAD, then GET, then the input
resolve_final_url(url, down) ==
    IF ~Truthy(url) THEN Ret(None, <<>>)
    ELSE LET final  == Redirect(url)
             up     == WebPage(final).ok /\ final \notin down
             headOk == up /\ Netloc(final) \notin RejectsHead
         IN IF headOk THEN Ret(final, <<Probe("HEAD", url, TRUE)>>)
            ELSE IF up THEN Ret(final, <<Probe("HEAD", url, FALSE), Probe("GET", url, TRUE)>>)
            ELSE Ret(url, <<Probe("HEAD", url, FALSE), Probe("GET", url, FALSE)>>)

(***************************************************************************)
(* Career page finder (find_career_page)                                   *)
(***************************************************************************)
paths == <<"/careers", "/careers/", "/jobs", "/jobs/", "/about/careers", "/company/careers", "/join-us">>

\* what find_career_page returns, the requests it made and the return
\* statement it left by: "path", "home", "footer", "ats" or "none"
Found(val, log, stage) == [val |-> val, log |-> log, stage |-> stage]

\* r.text.lower() holds a career or a job keyword
HasCareerOrJobKeyword(r) == AnyIn(CAREER_KEYWORDS \o JOB_KEYWORDS, r.lower)

\* a response that is truthy and whose text holds a career or a job keyword
KeywordPage(r) == r.ok /\ HasCareerOrJobKeyword(r)

\* the log after safe_get(u) was called for the reason why
Visit(log, why, u, down) == Append(log, Req(why, u, safe_get(u, down)))

\* urljoin(base, p) for p in paths
path_candidates(base) == [i \in 1..Len(paths) |-> UrlJoin(base, paths[i])]

\* for p in paths: the first candidate that answers with a keyword
RECURSIVE path_guess(_, _, _)
path_guess(candidates, down, log) ==
    IF candidates = <<>> THEN Ret(None, log)
    ELSE IF KeywordPage(safe_get(Head(candidates), down))
    THEN Ret(Head(candidates), Visit(log, "path", Head(candidates), down))
    ELSE path_guess(Tail(candidates), down, Visit(log, "path", Head(candidates), down))

\* whether the anchor goes to the list `anchors`: its target is a URL and
\* its href or its text holds a career keyword
career_anchor(full, a) ==
    Truthy(full) /\ (AnyIn(CAREER_KEYWORDS, Lower(a.href)) \/ AnyIn(CAREER_KEYWORDS, Lower(a.txt)))

\* the list `anchors`: the normalized targets of the homepage anchors whose
\* href or text holds a career keyword, in document order
RECURSIVE career_anchors(_, _)
career_anchors(base, as) ==
    IF as = <<>> THEN <<>>
    ELSE (IF career_anchor(normalize_url(base, Head(as).href), Head(as))
          THEN <<normalize_url(base, Head(as).href)>> ELSE <<>>)
         \o career_anchors(base, Tail(as))

\* for full, txt in anchors: the first target that answers with a keyword
RECURSIVE home_scan(_, _, _)
home_scan(fulls, down, log) ==
    IF fulls = <<>> THEN Ret(None, log)
    ELSE IF KeywordPage(safe_get(Head(fulls), down))
    THEN Ret(Head(fulls), Visit(log, "anchor", Head(fulls), down))
    ELSE home_scan(Tail(fulls), down, Visit(log, "anchor", Head(fulls), down))

\* whether a footer target is requested: it is a URL that holds a career keyword
footer_target(full) == Truthy(full) /\ AnyIn(CAREER_KEYWORDS, Lower(full))

\* the footer anchors' targets that are requested, in document order
RECURSIVE footer_targets(_, _)
footer_targets(base, as) ==
    IF as = <<>> THEN <<>>
    ELSE (IF footer_target(normalize_url(base, Head(as).href))
          THEN <<normalize_url(base, Head(as).href)>> ELSE <<>>)
         \o footer_targets(base, Tail(as))

\* for a in footer.find_all("a"): the first keyword target that answers
RECURSIVE footer_scan(_, _, _)
footer_scan(fulls, down, log) ==
    IF fulls = <<>> THEN Ret(None, log)
    ELSE IF safe_get(Head(fulls), down).ok
    THEN Ret(Head(fulls), Visit(log, "footer", Head(fulls), down))
    ELSE footer_scan(Tail(fulls), down, Visit(log, "footer", Head(fulls), down))

\* the characters that end a URL in the script pattern: [^\s'\"<>]
StopChars == {" ", "'", "\"", "<", ">"}

\* re.search(r"https?://[^\s'\"<>]*" + re.escape(ats) + r"[^\s'\"<>]*", txt):
\* the leftmost URL whose run of non-stop characters holds ats, or None
ats_search(txt, ats) ==
    LET bodyAt(i) == IF StartsWith(From(txt, i), "https://") THEN i + 8
                     ELSE IF StartsWith(From(txt, i), "http://") THEN i + 7 ELSE 0
        endAt(i)  == FirstOf(txt, StopChars, bodyAt(i)) - 1
        hits      == {i \in 1..Len(txt) :
                        /\ bodyAt(i) # 0
                        /\ Contains(SubSeq(txt, bodyAt(i), endAt(i)), ats)}
    IN IF hits = {} THEN None
       ELSE LET i == CHOOSE k \in hits : \A j \in hits : k <= j
            IN SubSeq(txt, i, endAt(i))

\* the first of two answers that is not None
Else(a, b) == IF a # None THEN a ELSE b

\* for ats in ATS_HOSTS: the first host of the list with a match in txt
RECURSIVE ats_in_script(_, _)
ats_in_script(txt, i) ==
    IF i > Len(ATS_HOSTS) THEN None
    ELSE Else(ats_search(txt, ATS_HOSTS[i]), ats_in_script(txt, i + 1))

\* for s in soup.find_all("script"): the first script with a match
RECURSIVE script_scan(_)
script_scan(scripts) ==
    IF scripts = <<>> THEN None
    ELSE Else(ats_in_script(Head(scripts), 1), script_scan(Tail(scripts)))

\* the anchors inside the footer element
FooterAnchors(as) == SelectSeq(as, LAMBDA a : a.footer)

\* find_career_page, the scan of the inline scripts and the final return
locate_in_scripts(byAts, log) ==
    IF byAts # None THEN Found(byAts, log, "ats") ELSE Found(None, log, "none")

\* find_career_page from the footer scan on
locate_in_footer(r, byFoot) ==
    IF byFoot.val # None THEN Found(byFoot.val, byFoot.log, "footer")
    ELSE locate_in_scripts(script_scan(r.scripts), byFoot.log)

\* a variant that goes on to the footer whatever the anchors gave
locate_past_anchor_hit(base, r, down, byHome) ==
    locate_in_footer(r, footer_scan(footer_targets(base, FooterAnchors(r.anchors)), down, byHome.log))

\* find_career_page from the scan of the homepage anchors on
locate_in_anchors(base, r, down, byHome) ==
    IF byHome.val # None THEN Found(byHome.val, byHome.log, "home")
    ELSE locate_in_footer(r, footer_scan(footer_targets(base, FooterAnchors(r.anchors)), down, byHome.log))

\* find_career_page from the homepage fetch on
locate_in_home(base, r, down, log) ==
    IF ~r.ok THEN Found(None, log, "none")
    ELSE locate_in_anchors(base, r, down, home_scan(career_anchors(base, r.anchors), down, log))

\* find_career_page from the loop over the paths on
locate_by_path(base, down, byPath) ==
    IF byPath.val # None THEN Found(byPath.val, byPath.log, "path")
    ELSE locate_in_home(base, safe_get(base, down), down, Visit(byPath.log, "home", base, down))

\* find_career_page from the base origin on
locate_from(base, down, log) == locate_by_path(base, down, path_guess(path_candidates(base), down, log))

\* company_site_url with "https://" put before it when it has no scheme
with_scheme(url) == IF Scheme(url) = "" THEN "https://" \o url ELSE url

\* find_career_page once company_site_url is resolved
locate_resolved(res, down) == locate_from(Origin(with_scheme(res.val)), down, res.log)

\* find_career_page(company_site_url), with its requests and its exit
find_career_page_run(company_site_url, down) ==
    IF ~Truthy(company_site_url) THEN Found(None, <<>>, "none")
    ELSE locate_resolved(resolve_final_url(company_site_url, down), down)

\* find_career_page(company_site_url)
find_career_page(company_site_url, down) == find_career_page_run(company_site_url, down).val

(***************************************************************************)
(* Job opening extractor (extract_one_job_from_career)                     *)
(***************************************************************************)
\* whether the anchor is returned: its href or text holds a job keyword and
\* its target is a URL that is neither javascript: nor holds mailto:
job_link(candidate, a) ==
    /\ AnyIn(JOB_KEYWORDS, Lower(a.href)) \/ AnyIn(JOB_KEYWORDS, Lower(a.txt))
    /\ Truthy(candidate)
    /\ ~StartsWith(Lower(candidate), "javascript:")
    /\ ~Contains(candidate, "mailto:")

\* for a in soup.find_all("a", href=True): the first anchor that is returned
RECURSIVE job_anchor(_, _)
job_anchor(career_url, as) ==
    IF as = <<>> THEN None
    ELSE IF job_link(normalize_url(career_url, Head(as).href), Head(as))
    THEN normalize_url(career_url, Head(as).href)
    ELSE job_anchor(career_url, Tail(as))

job_paths == <<"/jobs", "/openings", "/careers/jobs">>

\* urljoin(base, p) for p in the probe paths
job_candidates(base) == [i \in 1..Len(job_paths) |-> UrlJoin(base, job_paths[i])]

\* a response that is truthy and whose text holds a job keyword
JobPage(r) == r.ok /\ AnyIn(JOB_KEYWORDS, r.lower)

\* for p in ["/jobs", "/openings", "/careers/jobs"]: the first that answers
\* with a job keyword
RECURSIVE job_probe(_, _, _)
job_probe(candidates, down, log) ==
    IF candidates = <<>> THEN Ret(None, log)
    ELSE IF JobPage(safe_get(Head(candidates), down))
    THEN Ret(Head(candidates), Visit(log, "probe", Head(candidates), down))
    ELSE job_probe(Tail(candidates), down, Visit(log, "probe", Head(candidates), down))

\* extract_one_job_from_career, the probe of the job paths and the final return
extract_by_probe(byProbe) ==
    IF byProbe.val # None THEN Found(byProbe.val, byProbe.log, "probe")
    ELSE Found(None, byProbe.log, "none")

\* a variant without the ATS fallback
extract_without_ats(career_url, down, log, byLink) ==
    IF byLink # None THEN Found(byLink, log, "anchor")
    ELSE extract_by_probe(job_probe(job_candidates(Origin(career_url)), down, log))

\* extract_one_job_from_career from the scan of the anchors on
extract_by_anchor(career_url, down, log, byLink) ==
    IF byLink # None THEN Found(byLink, log, "anchor")
    ELSE IF is_ats_url(career_url) THEN Found(career_url, log, "ats")
    ELSE extract_by_probe(job_probe(job_candidates(Origin(career_url)), down, log))

\* extract_one_job_from_career from the fetch of the career page on
extract_from(career_url, r, down, log) ==
    IF ~r.ok THEN Found(None, log, "none")
    ELSE extract_by_anchor(career_url, down, log, job_anchor(career_url, r.anchors))

\* extract_one_job_from_career(career_url), with its requests and its exit:
\* "anchor", "ats", "probe" or "none"
extract_one_job_run(career_url, down) ==
    IF ~Truthy(career_url) THEN Found(None, <<>>, "none")
    ELSE extract_from(career_url, safe_get(career_url, down), down, Visit(<<>>, "career", career_url, down))

\* extract_one_job_from_career(career_url)
extract_one_job_from_career(career_url, down) == extract_one_job_run(career_url, down).val

(***************************************************************************)
(* Company identity (render_linkedin_job_with_playwright,                  *)
(* extract_linkedin_job_requests)                                          *)
(***************************************************************************)
\* the last index at which sub occurs in s, 0 when none
LastFind(s, sub) ==
    LET hits == {i \in 1..(Len(s) - Len(sub) + 1) : SubSeq(s, i, i + Len(sub) - 1) = sub}
    IN IF hits = {} THEN 0 ELSE CHOOSE i \in hits : \A j \in hits : i >= j

\* title.split(" at ")[-1].split("|")[0].strip()
title_company(title) ==
    LET tail == From(title, LastFind(title, " at ") + 4)
    IN Strip(Take(tail, FirstOf(tail, {"|"}, 1) - 1))

\* the company name heuristics: og:site_name, else the "... at Company | ..." title
company_name_of(page) ==
    LET og == IF Truthy(page.meta) THEN Strip(page.meta) ELSE None
    IN IF ~Truthy(og) /\ page.title # None
       THEN (IF Contains(page.title, " at ") THEN title_company(page.title) ELSE og)
       ELSE og

\* the first anchor whose text holds "company website" or is "website": its href
RECURSIVE website_anchor(_)
website_anchor(as) ==
    IF as = <<>> THEN None
    ELSE LET txt == Lower(Head(as).txt)
         IN IF Contains(txt, "company website") \/ Strip(txt) = "website"
            THEN Head(as).href
            ELSE website_anchor(Tail(as))

\* what the render step extracts from the rendered posting: (company_name, candidate_site)
rendered_identity(page) ==
    IF ~page.ok THEN <<None, None>>
    ELSE <<company_name_of(page),
           IF Truthy(website_anchor(page.anchors)) THEN website_anchor(page.anchors)
           ELSE first_external_link(page.anchors, "linkedin.com")>>

\* extract_linkedin_job_requests(job_url) on the fetched posting: (company_name, company_site)
static_identity(page) ==
    IF ~page.ok THEN <<None, None>>
    ELSE <<company_name_of(page), first_external_link(page.anchors, "linkedin.com")>>

\* The postings of the aggregator.
PostingURLs ==
    {"https://www.linkedin.com/jobs/view/1", "https://www.linkedin.com/jobs/view/2",
     "https://www.linkedin.com/jobs/view/3", "https://www.linkedin.com/jobs/view/4",
     "https://www.linkedin.com/jobs/view/5", "https://www.linkedin.com/jobs/view/6",
     "https://www.linkedin.com/jobs/view/7"}

\* the rendered page of a posting
RenderedAt(u) ==
    CASE u = "https://www.linkedin.com/jobs/view/1" ->
           Page("Acme Corp", "Engineer at Acme Corp | LinkedIn", "",
                <<Anchor("https://bit.ly/cmp", "Share"), Anchor("https://lnkd.in/acme", "Company Website")>>, <<>>)
      [] u = "https://www.linkedin.com/jobs/view/2" ->
           Page(None, "Engineer at Beta | LinkedIn", "",
                <<Anchor("https://www.linkedin.com/login", "Sign in"), Anchor("https://bit.ly/cmp", "Apply")>>, <<>>)
      [] u = "https://www.linkedin.com/jobs/view/3" ->
           Page(" Delta.dev ", None, "", <<Anchor("/jobs/view/2", "Similar jobs")>>, <<>>)
      [] u = "https://www.linkedin.com/jobs/view/4" ->
           Page(None, "Gamma is hiring", "", <<Anchor("https://www.gamma.org", " Website ")>>, <<>>)
      [] u = "https://www.linkedin.com/jobs/view/5" ->
           Page("Epsilon & Co", "Epsilon", "", <<Anchor("https://www.epsilon.co", "company website")>>, <<>>)
      [] u = "https://www.linkedin.com/jobs/view/6" ->
           Page(None, "Recruiter at LinkedIn.com | LinkedIn", "",
                <<Anchor("https://www.linkedin.com/company/linkedin", "Company website")>>, <<>>)
      [] OTHER -> Page(None, "Sign in", "", <<Anchor("https://bit.ly/cmp", "Share")>>, <<>>)

\* the page of a posting as fetched without rendering
StaticAt(u) ==
    CASE u = "https://www.linkedin.com/jobs/view/3" ->
           Page("Delta Inc", None, "", <<Anchor("https://www.delta.dev", "delta.dev")>>, <<>>)
      [] u = "https://www.linkedin.com/jobs/view/4" ->
           Page(None, "Engineer at Gamma | LinkedIn", "", <<Anchor("https://bit.ly/cmp", "Apply")>>, <<>>)
      [] OTHER -> RenderedAt(u)

Rendered == [u \in PostingURLs |-> RenderedAt(u)]
Static == [u \in PostingURLs |-> StaticAt(u)]

(***************************************************************************)
(* Web search (search_company_site_duckduckgo)                             *)
(***************************************************************************)
\* a results page: the href of the first a.result__a (None without one) and
\* the anchors of the page
Results(result, anchors) == [ok |-> TRUE, result |-> result, anchors |-> anchors]
NoResults == [ok |-> FALSE, result |-> None, anchors |-> <<>>]

\* the answers the search engine may give
SearchResponses ==
    {NoResults,
     Results("https://www.beta.io", <<Anchor("https://www.beta.io", "Beta")>>),
     Results("https://www.linkedin.com/company/beta", <<Anchor("https://www.linkedin.com/company/beta", "Beta | LinkedIn")>>),
     Results(None, <<Anchor("/settings", "Settings"), Anchor("https://www.gamma.org", "Gamma")>>),
     Results(None, <<>>)}

\* search_company_site_duckduckgo(company_name), resp the answer to the POST
search_company_site_duckduckgo(company_name, resp) ==
    IF ~Truthy(company_name) THEN None
    ELSE IF ~resp.ok THEN None
    ELSE IF Truthy(resp.result) THEN resp.result
    ELSE first_external_link(resp.anchors, None)

\* a variant that keeps every character of the lower-cased name
guess_unslugged(company_name) == "https://www." \o Lower(company_name)

\* "https://www." + re.sub(r"[^a-z0-9\-\.]", "", company_name.lower())
guessed_site(company_name) == "https://www." \o Filter(Lower(company_name), SlugChars)

(***************************************************************************)
(* Listing pages and the output file                                       *)
(***************************************************************************)
\* the hrefs of the anchors a rendered listing page may show after a scroll
ListingContents ==
    {<<>>,
     <<"/jobs/search/?start=25", "/jobs/view/1?refId=a">>,
     <<"/jobs/view/1?refId=b", "https://www.linkedin.com/jobs/view/2?trk=x">>,
     <<"/jobs/view/1?refId=a", "#/jobs/view/9">>}

\* a variant that keeps the query string
with_query(href) == href

\* href.split("?")[0]
before_query(href) == Take(href, FirstOf(href, {"?"}, 1) - 1)

\* the identifiers one pass over the anchors adds to job_urls
RECURSIVE posting_links(_, _)
posting_links(url, hrefs) ==
    IF hrefs = <<>> THEN {}
    ELSE (IF Contains(Head(hrefs), "/jobs/view/")
          THEN {normalize_url(url, before_query(Head(hrefs)))} ELSE {})
         \cup posting_links(url, Tail(hrefs))

\* the header line csv.DictWriter writes
Header ==
    [company_name |-> "company_name", company_website |-> "company_website",
     career_page |-> "career_page", job_url |-> "job_url"]

\* a variant that puts the career page where there is no job opening
Row_falls_back(name, site, career, job) ==
    [company_name |-> Or(name, ""), company_website |-> Or(site, ""),
     career_page |-> Or(career, ""), job_url |-> Or(job, Or(career, ""))]

\* the row process_single_job builds
Row(name, site, career, job) ==
    [company_name |-> Or(name, ""), company_website |-> Or(site, ""),
     career_page |-> Or(career, ""), job_url |-> Or(job, "")]

\* a variant that writes the header before every row
save_row_with_header(file, row) ==
    [exists |-> TRUE, lines |-> file.lines \o <<Header, row>>]

\* save_row(row): the file after the call
save_row(file, row) ==
    [exists |-> TRUE,
     lines  |-> (IF file.exists THEN file.lines ELSE file.lines \o <<Header>>) \o <<row>>]

(***************************************************************************)
(* Bounds and parameters                                                   *)
(***************************************************************************)
\* how many of the URLs a call requests may be failing at once
MaxDown == 2
\* scrape_jobs_from_search_page(search_url, max_scrolls=20): the default, and
\* the values of the argument tried
DEFAULT_MAX_SCROLLS == 20
MaxScrollsArgs == {1, 2, 3, DEFAULT_MAX_SCROLLS}

SeqSet(q) == {q[i] : i \in 1..Len(q)}

\* the URLs find_career_page(site) can request
LocatorTargets(site) ==
    LET bases == {Origin(with_scheme(x)) : x \in {site, Redirect(site)}}
    IN {site} \cup bases
       \cup {UrlJoin(b, p) : b \in bases, p \in SeqSet(paths)}
       \cup {normalize_url(b, a.href) : b \in bases, a \in UNION {SeqSet(WebPage(Redirect(c)).anchors) : c \in bases}}

\* the URLs extract_one_job_from_career(career) can request
ExtractorTargets(career) ==
    {career} \cup {UrlJoin(Origin(career), p) : p \in SeqSet(job_paths)}

\* the sets of failing pages a call that can request `targets` may meet
Downs(targets) ==
    {d \in SUBSET ({Redirect(u) : u \in targets} \cap WebURLs) : Cardinality(d) <= MaxDown}

\* the permutations of a finite set, as sequences: the orders list(job_urls) may have
Orders(S) == {q \in [1..Cardinality(S) -> S] : \A a, b \in 1..Cardinality(S) : a # b => q[a] # q[b]}

(***************************************************************************)
(* State                                                                   *)
(***************************************************************************)
VARIABLES
    entry,                \* the function called: "run_main", "scrape_jobs_from_search_page",
                          \* "process_single_job" or "safe_get"
    input_url,            \* its URL argument
    use_playwright,       \* the use_playwright argument
    PLAYWRIGHT_AVAILABLE, \* whether the playwright import succeeded
    max_scrolls,          \* scrape: the max_scrolls argument
    pc,                   \* the position in the code
    job_urls,             \* scrape: the set job_urls
    prev,                 \* scrape: prev (-1 for None)
    scrolls,              \* scrape: the iterations of the scroll loop begun
    content,              \* scrape: the anchors of the last page.content()
    queue,                \* run_main: the postings of list(job_urls) still to process
    job_url,              \* process_single_job: its argument
    company_name, company_website, career_page, job_opening,
    csv,                  \* the output file: [exists, lines]
    out,                  \* what the last step's call returned: [val, log, stage]
    trail,                \* the steps of the current posting that did something
    calls,                \* the calls of process_single_job so far
    result,               \* what the last call of process_single_job returned
    fetch,                \* the running call of safe_get: [attempt, log, ret, calls, spent]
    norm,                 \* normalize_url: [href, once, twice], the href given, what
                          \* normalize_url made of it, and what it made of that
    agent                 \* run_agent (part2_agent_prev.py): [job_urls, results, file], the
                          \* postings found, the list `results` and linkedin_jobs_results.csv

vars == <<entry, input_url, use_playwright, PLAYWRIGHT_AVAILABLE, max_scrolls, pc, job_urls, prev, scrolls,
          content, queue, job_url, company_name, company_website, career_page, job_opening,
          csv, out, trail, calls, result, fetch, norm, agent>>

args == <<entry, input_url, use_playwright, PLAYWRIGHT_AVAILABLE, max_scrolls>>
scrape_vars == <<job_urls, prev, scrolls, content>>
posting_vars == <<job_url, company_name, company_website, career_page, job_opening>>

NoOut == Found(None, <<>>, "")

\* URLs to fetch: one that answers, two that redirect, one that never answers
FetchURLs ==
    {"https://www.acme.com", "https://lnkd.in/acme", "https://www.epsilon.co/careers",
     "https://www.nowhere.test/"}

\* the bases and the hrefs normalize_url is given: a site, a page of it, a URL
\* with a query; hrefs that are empty, blank, fragments, scripts, mail
\* addresses, relative, absolute and protocol-relative
Bases == {"https://www.acme.com", "https://www.acme.com/a/b", "http://x.org/p?q=1"}
Hrefs ==
    {"", "   ", "#top", "  #top", "javascript:void(0)", "JavaScript:void(0)",
     "mailto:hr@acme.com", "MAILTO:hr@acme.com", "/jobs", "jobs", " /careers ", "?page=2",
     "/x?", "x#", "https://a.com/x", "https://a.com/x?", "https://a.com/x?q=1#f",
     "https:/jobs", "//a.com/x", "//a.com/x?", "//", "///x"}

\* no call of safe_get yet
NoFetch == [attempt |-> 0, log |-> <<>>, ret |-> NoResponse, calls |-> 0, spent |-> 0]

\* the URL arguments of each entry
Inputs(e) ==
    CASE e = "process_single_job" -> PostingURLs
      [] e = "scrape_jobs_from_search_page" -> {"https://www.linkedin.com/jobs/search/?keywords=x"}
      [] e = "safe_get" -> FetchURLs
      [] e = "normalize_url" -> Bases
      [] e = "run_agent" -> {"https://www.linkedin.com/jobs/search/?keywords=x"}
      [] OTHER -> {" https://www.linkedin.com/jobs/view/1 ", "https://www.linkedin.com/jobs/search/?keywords=x"}

Files == {[exists |-> FALSE, lines |-> <<>>], [exists |-> TRUE, lines |-> <<Header>>]}

Init ==
    /\ entry \in {"run_main", "scrape_jobs_from_search_page", "process_single_job", "safe_get",
                   "normalize_url", "run_agent"}
    /\ input_url \in Inputs(entry)
    /\ use_playwright \in BOOLEAN
    /\ PLAYWRIGHT_AVAILABLE \in BOOLEAN
    /\ max_scrolls \in (IF entry = "scrape_jobs_from_search_page" THEN MaxScrollsArgs
                        ELSE {DEFAULT_MAX_SCROLLS})
    /\ pc = (CASE entry = "run_main" -> "main"
               [] entry = "scrape_jobs_from_search_page" -> "scrape"
               [] entry = "safe_get" -> "get"
               [] entry = "normalize_url" -> "normalize"
               [] entry = "run_agent" -> "agent"
               [] OTHER -> "A")
    /\ job_urls = {} /\ prev = -1 /\ scrolls = 0 /\ content = <<>>
    /\ queue = <<>>
    /\ job_url = (IF entry = "process_single_job" THEN input_url ELSE None)
    /\ company_name = None /\ company_website = None
    /\ career_page = None /\ job_opening = None
    /\ csv \in Files
    /\ out = NoOut /\ trail = <<>>
    /\ calls = (IF entry = "process_single_job" THEN 1 ELSE 0)
    /\ result = None
    /\ fetch = NoFetch
    /\ norm \in (IF entry = "normalize_url"
                 THEN {[href |-> h, once |-> None, twice |-> None] : h \in Hrefs}
                 ELSE {[href |-> None, once |-> None, twice |-> None]})
    /\ agent = [job_urls |-> {}, results |-> <<>>, file |-> [exists |-> FALSE, lines |-> <<>>]]

\* process_single_job(j) is entered
Enter(j) ==
    /\ job_url' = j
    /\ company_name' = None /\ company_website' = None
    /\ career_page' = None /\ job_opening' = None
    /\ trail' = <<>> /\ out' = NoOut
    /\ calls' = calls + 1
    /\ pc' = "A"

(***************************************************************************)
(* run_main                                                                *)
(***************************************************************************)
\* a variant that takes any URL under /jobs/ for a single posting
Main_by_jobs ==
    /\ pc = "main"
    /\ IF Contains(Strip(input_url), "/jobs/")
       THEN /\ Enter(Strip(input_url))
            /\ UNCHANGED <<args, fetch, norm, agent, scrape_vars, queue, csv, result>>
       ELSE /\ pc' = IF use_playwright /\ PLAYWRIGHT_AVAILABLE THEN "scrape" ELSE "discovered"
            /\ UNCHANGED <<args, fetch, norm, agent, scrape_vars, queue, posting_vars, csv, out, trail, calls, result>>

\* run_main up to the discovery of the postings
Main ==
    /\ pc = "main"
    /\ LET u == Strip(input_url)
       IN IF Contains(u, "/jobs/view/")
          THEN /\ Enter(u)
               /\ UNCHANGED <<args, fetch, norm, agent, scrape_vars, queue, csv, result>>
          ELSE IF use_playwright /\ PLAYWRIGHT_AVAILABLE
          THEN /\ pc' = "scrape"
               /\ UNCHANGED <<args, fetch, norm, agent, scrape_vars, queue, posting_vars, csv, out, trail, calls, result>>
          ELSE /\ pc' = "discovered"
               /\ UNCHANGED <<args, fetch, norm, agent, scrape_vars, queue, posting_vars, csv, out, trail, calls, result>>

\* a variant that treats the input as a single posting when none was discovered
Discovered_single ==
    /\ pc = "discovered"
    /\ IF job_urls = {}
       THEN /\ Enter(input_url)
            /\ queue' = <<>>
       ELSE /\ pc' = "loop"
            /\ queue' \in Orders(job_urls)
            /\ UNCHANGED <<posting_vars, out, trail, calls>>
    /\ UNCHANGED <<args, fetch, norm, agent, scrape_vars, csv, result>>

\* `if not job_urls: return`, else the for loop over list(job_urls) begins
Discovered ==
    /\ pc = "discovered"
    /\ IF job_urls = {}
       THEN /\ pc' = "done"
            /\ queue' = <<>>
       ELSE /\ pc' = "loop"
            /\ queue' \in Orders(job_urls)
    /\ UNCHANGED <<args, fetch, norm, agent, scrape_vars, posting_vars, csv, out, trail, calls, result>>

\* one turn of `for i, j in enumerate(job_urls)`: the next posting, or the end
Loop ==
    /\ pc = "loop"
    /\ IF queue = <<>>
       THEN /\ pc' = "done"
            /\ UNCHANGED <<queue, posting_vars, out, trail, calls>>
       ELSE /\ Enter(Head(queue))
            /\ queue' = Tail(queue)
    /\ UNCHANGED <<args, fetch, norm, agent, scrape_vars, csv, result>>

(***************************************************************************)
(* scrape_jobs_from_search_page                                            *)
(***************************************************************************)
\* where the caller goes on after scrape_jobs_from_search_page returns
AfterScrape == IF entry = "run_main" THEN "discovered" ELSE "done"

\* the search_url argument: run_main passes its stripped input
search_url == IF entry = "run_main" THEN Strip(input_url) ELSE input_url

\* the entry: no playwright, no postings; else the browser opens the page
ScrapeEnter ==
    /\ pc = "scrape"
    /\ job_urls' = {} /\ prev' = -1 /\ scrolls' = 0 /\ content' = <<>>
    /\ IF ~PLAYWRIGHT_AVAILABLE THEN pc' = AfterScrape ELSE pc' = "scroll"
    /\ UNCHANGED <<args, fetch, norm, agent, queue, posting_vars, csv, out, trail, calls, result>>

\* page.goto, page.evaluate or page.content raises: nothing catches it
ScrapeRaise ==
    /\ pc \in {"scroll"}
    /\ scrolls < max_scrolls
    /\ pc' = "error"
    /\ UNCHANGED <<args, fetch, norm, agent, scrape_vars, queue, posting_vars, csv, out, trail, calls, result>>

\* a variant that breaks after any iteration but the first
breaks_after_first(p, curr) == p # -1

\* a variant that also breaks after a first iteration that found nothing
breaks_on_first(p, curr) == (p # -1 /\ curr = p) \/ (p = -1 /\ curr = 0)

\* whether the loop breaks after an iteration that left curr identifiers
breaks(p, curr) == p # -1 /\ curr = p

\* a variant that keeps only what the last pass found
collected_afresh(urls, url, hrefs) == posting_links(url, hrefs)

\* job_urls after one pass over the anchors of the page
collected(urls, url, hrefs) == urls \cup posting_links(url, hrefs)

\* one iteration of the scroll loop
Scroll ==
    /\ pc = "scroll"
    /\ scrolls < max_scrolls
    /\ \E c \in ListingContents :
         LET found == collected(job_urls, search_url, c)
             curr  == Cardinality(found)
         IN /\ content' = c
            /\ job_urls' = found
            /\ scrolls' = scrolls + 1
            /\ IF breaks(prev, curr)
               THEN /\ prev' = prev
                    /\ pc' = "closing"
               ELSE /\ prev' = curr
                    /\ pc' = IF scrolls + 1 = max_scrolls THEN "closing" ELSE "scroll"
    /\ UNCHANGED <<args, fetch, norm, agent, queue, posting_vars, csv, out, trail, calls, result>>

\* browser.close() and `return list(job_urls)`
ScrapeReturn ==
    /\ pc = "closing"
    /\ pc' = AfterScrape
    /\ prev' = -1 /\ scrolls' = 0 /\ content' = <<>>
    /\ UNCHANGED <<args, fetch, norm, agent, job_urls, queue, posting_vars, csv, out, trail, calls, result>>

(***************************************************************************)
(* process_single_job                                                      *)
(***************************************************************************)
\* a variant in which the loop goes on at once
AfterPosting_no_delay ==
    IF entry = "run_main" /\ ~Contains(Strip(input_url), "/jobs/view/") THEN "loop" ELSE "done"

\* where the caller goes on after process_single_job returns: the loop of
\* run_main at its time.sleep(1), any other caller at its end
AfterPosting ==
    IF entry = "run_main" /\ ~Contains(Strip(input_url), "/jobs/view/") THEN "sleep" ELSE "done"

\* time.sleep(1) after a posting of the loop, then the next turn
PoliteDelay ==
    /\ pc = "sleep"
    /\ pc' = "loop"
    /\ UNCHANGED <<args, fetch, norm, agent, scrape_vars, queue, posting_vars, csv, out, trail, calls, result>>

\* what a render or a fetch of the posting may get: its page, or nothing
PostingAnswers(table, j) == IF j \in PostingURLs THEN {table[j], NoResponse} ELSE {NoResponse}

\* a variant of Step A in which a failed render is raised to the caller
StepA_raises ==
    /\ pc = "A"
    /\ IF use_playwright /\ PLAYWRIGHT_AVAILABLE
       THEN \E page \in PostingAnswers(Rendered, job_url) :
              /\ company_name' = Or(rendered_identity(page)[1], company_name)
              /\ company_website' = Or(rendered_identity(page)[2], company_website)
              /\ out' = Found(None, <<Req("render", job_url, page)>>, "render")
              /\ trail' = Append(trail, "render")
              /\ pc' = IF page.ok THEN "B" ELSE "error"
       ELSE /\ UNCHANGED <<company_name, company_website, out, trail>>
            /\ pc' = "B"
    /\ UNCHANGED <<args, fetch, norm, agent, scrape_vars, queue, job_url, career_page, job_opening, csv, calls, result>>

\* Step A: the render extraction
StepA ==
    /\ pc = "A"
    /\ IF use_playwright /\ PLAYWRIGHT_AVAILABLE
       THEN \E page \in PostingAnswers(Rendered, job_url) :
              LET id == rendered_identity(page)
              IN /\ company_name' = Or(id[1], company_name)
                 /\ company_website' = Or(id[2], company_website)
                 /\ out' = Found(None, <<Req("render", job_url, page)>>, "render")
                 /\ trail' = Append(trail, "render")
       ELSE UNCHANGED <<company_name, company_website, out, trail>>
    /\ pc' = "B"
    /\ UNCHANGED <<args, fetch, norm, agent, scrape_vars, queue, job_url, career_page, job_opening, csv, calls, result>>

\* a variant of Step B in which what the fetch finds replaces what the render found
StepB_overwrites ==
    /\ pc = "B"
    /\ IF ~Truthy(company_name) \/ ~Truthy(company_website)
       THEN \E page \in PostingAnswers(Static, job_url) :
              /\ company_name' = Or(static_identity(page)[1], company_name)
              /\ company_website' = Or(static_identity(page)[2], company_website)
              /\ out' = Found(None, <<Req("static", job_url, page)>>, "static")
              /\ trail' = Append(trail, "static")
       ELSE UNCHANGED <<company_name, company_website, out, trail>>
    /\ pc' = "C"
    /\ UNCHANGED <<args, fetch, norm, agent, scrape_vars, queue, job_url, career_page, job_opening, csv, calls, result>>

\* Step B: the requests fallback
StepB ==
    /\ pc = "B"
    /\ IF ~Truthy(company_name) \/ ~Truthy(company_website)
       THEN \E page \in PostingAnswers(Static, job_url) :
              LET id == static_identity(page)
              IN /\ company_name' = Or(company_name, id[1])
                 /\ company_website' = Or(company_website, id[2])
                 /\ out' = Found(None, <<Req("static", job_url, page)>>, "static")
                 /\ trail' = Append(trail, "static")
       ELSE UNCHANGED <<company_name, company_website, out, trail>>
    /\ pc' = "C"
    /\ UNCHANGED <<args, fetch, norm, agent, scrape_vars, queue, job_url, career_page, job_opening, csv, calls, result>>

\* Step C: resolve the candidate site; a site on the aggregator is dropped
StepC ==
    /\ pc = "C"
    /\ IF Truthy(company_website)
       THEN \E d \in Downs({company_website}) :
              LET res        == resolve_final_url(company_website, d)
                  final_site == res.val
              IN /\ company_website' = IF is_linkedin_domain(final_site) THEN None ELSE final_site
                 /\ out' = Found(final_site, res.log, "resolve")
                 /\ trail' = Append(trail, "resolve")
       ELSE UNCHANGED <<company_website, out, trail>>
    /\ pc' = "D"
    /\ UNCHANGED <<args, fetch, norm, agent, scrape_vars, queue, job_url, company_name, career_page, job_opening, csv, calls, result>>

\* Step D: search by company name
StepD ==
    /\ pc = "D"
    /\ IF ~Truthy(company_website) /\ Truthy(company_name)
       THEN \E resp \in SearchResponses :
              LET found == search_company_site_duckduckgo(company_name, resp)
                  post  == Req("search", "https://duckduckgo.com/html/", resp)
              IN IF Truthy(found)
                 THEN \E d \in Downs({found}) :
                        LET res == resolve_final_url(found, d)
                        IN /\ company_website' =
                                IF ~is_linkedin_domain(res.val) THEN res.val ELSE company_website
                           /\ out' = Found(res.val, <<post>> \o res.log, "found")
                           /\ trail' = Append(trail, "search")
                 ELSE /\ company_website' = company_website
                      /\ out' = Found(None, <<post>>, "nothing")
                      /\ trail' = Append(trail, "search")
       ELSE UNCHANGED <<company_website, out, trail>>
    /\ pc' = "E"
    /\ UNCHANGED <<args, fetch, norm, agent, scrape_vars, queue, job_url, company_name, career_page, job_opening, csv, calls, result>>

\* a variant that guesses from the company name whether or not a site is known
StepE_guesses_over ==
    /\ pc = "E"
    /\ IF Truthy(company_name)
       THEN /\ company_website' = guessed_site(company_name)
            /\ trail' = Append(trail, "guess")
       ELSE UNCHANGED <<company_website, trail>>
    /\ pc' = "F"
    /\ UNCHANGED <<args, fetch, norm, agent, scrape_vars, queue, job_url, company_name, career_page, job_opening, csv, out, calls, result>>

\* Step E: the last resort guess from the company name
StepE ==
    /\ pc = "E"
    /\ IF ~Truthy(company_website) /\ Truthy(company_name)
       THEN /\ company_website' = guessed_site(company_name)
            /\ trail' = Append(trail, "guess")
       ELSE UNCHANGED <<company_website, trail>>
    /\ pc' = "F"
    /\ UNCHANGED <<args, fetch, norm, agent, scrape_vars, queue, job_url, company_name, career_page, job_opening, csv, out, calls, result>>

\* Step F: find the career page
StepF ==
    /\ pc = "F"
    /\ IF Truthy(company_website)
       THEN \E d \in Downs(LocatorTargets(company_website)) :
              /\ career_page' = find_career_page(company_website, d)
              /\ out' = find_career_page_run(company_website, d)
              /\ trail' = Append(trail, "locate")
       ELSE /\ career_page' = None
            /\ UNCHANGED <<out, trail>>
    /\ pc' = "F2"
    /\ UNCHANGED <<args, fetch, norm, agent, scrape_vars, queue, job_url, company_name, company_website, job_opening, csv, calls, result>>

\* "Sanity": a career page on the aggregator is dropped
StepF2 ==
    /\ pc = "F2"
    /\ career_page' = IF Truthy(career_page) /\ is_linkedin_domain(career_page) THEN None ELSE career_page
    /\ pc' = "G"
    /\ UNCHANGED <<args, fetch, norm, agent, scrape_vars, queue, job_url, company_name, company_website, job_opening, csv, out, trail, calls, result>>

\* Step G: extract one job from the career page
StepG ==
    /\ pc = "G"
    /\ IF Truthy(career_page)
       THEN \E d \in Downs(ExtractorTargets(career_page)) :
              /\ job_opening' = extract_one_job_from_career(career_page, d)
              /\ out' = extract_one_job_run(career_page, d)
              /\ trail' = Append(trail, "extract")
       ELSE /\ job_opening' = None
            /\ UNCHANGED <<out, trail>>
    /\ pc' = "G2"
    /\ UNCHANGED <<args, fetch, norm, agent, scrape_vars, queue, job_url, company_name, company_website, career_page, csv, calls, result>>

\* a job opening on the aggregator is dropped
StepG2 ==
    /\ pc = "G2"
    /\ job_opening' = IF Truthy(job_opening) /\ is_linkedin_domain(job_opening) THEN None ELSE job_opening
    /\ pc' = "save"
    /\ UNCHANGED <<args, fetch, norm, agent, scrape_vars, queue, job_url, company_name, company_website, career_page, csv, out, trail, calls, result>>

\* a variant that saves a row for every posting
saves_always(career) == TRUE

\* whether process_single_job saves a row for this career page
saves(career) == Truthy(career)

\* the end of process_single_job: no career page, no row; else save_row(row)
Save ==
    /\ pc = "save"
    /\ IF ~saves(career_page)
       THEN /\ result' = None
            /\ csv' = csv
            /\ trail' = Append(trail, "skip")
       ELSE LET row == Row(company_name, company_website, career_page, job_opening)
            IN /\ csv' = save_row(csv, row)
               /\ result' = row
               /\ trail' = Append(trail, "save")
    /\ pc' = AfterPosting
    /\ UNCHANGED <<args, fetch, norm, agent, scrape_vars, queue, posting_vars, out, calls>>

(***************************************************************************)
(* The earlier pipeline: run_agent of part2_agent_prev.py                  *)
(***************************************************************************)
PREV_CAREER_KEYWORDS ==
    <<"careers", "jobs", "join-us", "joinus", "work-with-us", "vacancies", "open-positions",
      "opportunities", "roles", "positions", "join", "hiring">>
PREV_JOB_KEYWORDS ==
    <<"job", "position", "openings", "apply", "career", "careers", "roles", "/jobs/",
      "/open-positions/">>
prev_paths ==
    <<"/careers", "/jobs", "/careers/", "/jobs/", "/careers.html", "/careers/positions",
      "/careers/openings", "/careers-us">>
MaxPrevDown == 1

\* normalize_url(base, href) of the earlier pipeline: no href is rejected but the empty one
prev_normalize_url(base, href) ==
    IF ~Truthy(href) THEN None
    ELSE IF StartsWith(Strip(href), "//")
    THEN (IF Scheme(base) # "" THEN Scheme(base) ELSE "https") \o ":" \o Strip(href)
    ELSE UrlJoin(base, Strip(href))

\* domain_of(url)
domain_of(url) == Lower(Netloc(url))

\* the company name after a page was read, when there was none before:
\* og:site_name, else re.sub(r"\s*\|\s*LinkedIn.*$", "", title).strip()
prev_name(page, name) ==
    IF Truthy(name) THEN name
    ELSE IF Truthy(page.meta) /\ Truthy(Strip(page.meta)) THEN Strip(page.meta)
    ELSE IF page.title # None
    THEN LET hits == {p \in 1..Len(page.title) :
                        /\ SubSeq(page.title, p, p) = "|"
                        /\ StartsWith(LStrip(From(page.title, p + 1)), "LinkedIn")}
         IN IF hits = {} THEN Strip(page.title)
            ELSE Strip(Take(page.title, (CHOOSE p \in hits : \A q \in hits : p <= q) - 1))
    ELSE IF Truthy(page.meta) THEN Strip(page.meta)
    ELSE name

\* the company website after the anchors were read: from the first anchor
\* taken, else what it was; the rendered page asks for "http" anywhere in
\* the href, the fetched page at its start
RECURSIVE prev_site(_, _, _, _)
prev_site(job, as, anywhere, site) ==
    IF as = <<>> THEN site
    ELSE IF /\ IF anywhere THEN Contains(Head(as).href, "http")
               ELSE StartsWith(Head(as).href, "http")
            /\ ~Contains(Head(as).href, "linkedin.com")
            /\ \/ Contains(Lower(Head(as).txt), "website")
               \/ Contains(domain_of(Head(as).href), ".")
    THEN prev_normalize_url(job, Head(as).href)
    ELSE prev_site(job, Tail(as), anywhere, site)

\* parse_linkedin_job once the render is over, with the name and the site it
\* gave: the fetch, when one of them is missing
parse_fallback(job, name, site, static) ==
    IF Truthy(name) /\ Truthy(site) THEN <<name, site>>
    ELSE IF ~static.ok THEN <<name, site>>
    ELSE <<prev_name(static, name), prev_site(job, static.anchors, FALSE, site)>>

\* parse_linkedin_job(linkedin_job_url): (company_name, company_website);
\* rendered is the page the browser got, not ok when it raised
parse_linkedin_job(job, rendered, static) ==
    IF rendered.ok
    THEN parse_fallback(job, prev_name(rendered, None),
                        prev_site(job, rendered.anchors, TRUE, None), static)
    ELSE parse_fallback(job, None, None, static)

\* for p in the common paths: the first candidate that answers with a keyword
RECURSIVE prev_path_guess(_, _, _)
prev_path_guess(origin, i, down) ==
    IF i > Len(prev_paths) THEN None
    ELSE IF safe_get(UrlJoin(origin, prev_paths[i]), down).ok
            /\ AnyIn(PREV_CAREER_KEYWORDS, safe_get(UrlJoin(origin, prev_paths[i]), down).lower)
    THEN UrlJoin(origin, prev_paths[i])
    ELSE prev_path_guess(origin, i + 1, down)

\* for a in the anchors of the homepage: the first keyword anchor that answers
RECURSIVE prev_home_scan(_, _, _)
prev_home_scan(origin, as, down) ==
    IF as = <<>> THEN None
    ELSE IF (AnyIn(PREV_CAREER_KEYWORDS, Lower(Head(as).href))
               \/ AnyIn(PREV_CAREER_KEYWORDS, Lower(Head(as).txt)))
            /\ safe_get(prev_normalize_url(origin, Head(as).href), down).ok
    THEN prev_normalize_url(origin, Head(as).href)
    ELSE prev_home_scan(origin, Tail(as), down)

\* find_career_page of the earlier pipeline, from base_origin on
prev_locate(origin, down) ==
    Else(prev_path_guess(origin, 1, down),
         IF safe_get(origin, down).ok
         THEN prev_home_scan(origin, safe_get(origin, down).anchors, down)
         ELSE None)

\* find_career_page(company_site_url) of the earlier pipeline
prev_find_career_page(site, down) ==
    IF ~Truthy(site) THEN None
    ELSE prev_locate(Origin(IF StartsWith(site, "http") THEN site ELSE "https://" \o site), down)

\* for a in the anchors of the career page: the first job link
RECURSIVE prev_job_anchor(_, _)
prev_job_anchor(career, as) ==
    IF as = <<>> THEN None
    ELSE IF (AnyIn(PREV_JOB_KEYWORDS, Lower(Head(as).href))
               \/ AnyIn(PREV_JOB_KEYWORDS, Lower(Head(as).txt)))
            /\ Truthy(prev_normalize_url(career, Head(as).href))
            /\ ~StartsWith(prev_normalize_url(career, Head(as).href), "javascript:")
            /\ ~Contains(prev_normalize_url(career, Head(as).href), "mailto:")
    THEN prev_normalize_url(career, Head(as).href)
    ELSE prev_job_anchor(career, Tail(as))

\* extract_one_job_from_career(career_url) of the earlier pipeline
prev_extract_one_job(career, down) ==
    IF ~safe_get(career, down).ok THEN None
    ELSE Else(prev_job_anchor(career, safe_get(career, down).anchors), career)

\* re.sub(r"\s+", "", s)
RECURSIVE NoBlanks(_)
NoBlanks(s) ==
    IF Len(s) <= 1 THEN (IF s = " " THEN "" ELSE s)
    ELSE NoBlanks(Take(s, Len(s) \div 2)) \o NoBlanks(From(s, Len(s) \div 2 + 1))

\* the company website run_agent goes on with: the guess from the name when
\* the posting gave none
prev_site_or_guess(name, site) ==
    IF ~Truthy(site) /\ Truthy(name)
    THEN "https://www." \o Lower(NoBlanks(name)) \o ".com"
    ELSE site

\* the hrefs of the anchors of the listing page after the scrolling
PrevListingContents ==
    {<<>>,
     <<"/jobs/search/?start=25", "/jobs/view/1?refId=a", "/jobs/view/4">>,
     <<"https://www.linkedin.com/jobs/view/5">>}

\* job_urls after the pass over the anchors: the query string stays
RECURSIVE prev_posting_links(_, _)
prev_posting_links(url, hrefs) ==
    IF hrefs = <<>> THEN {}
    ELSE (IF Contains(Head(hrefs), "/jobs/view/")
          THEN {prev_normalize_url(url, Head(hrefs))} ELSE {})
         \cup prev_posting_links(url, Tail(hrefs))

\* the sets of failing pages among those find_career_page can request for the site
PrevDowns(site) ==
    IF ~Truthy(site) THEN {{}}
    ELSE {d \in SUBSET (WebURLs \cap
                ({UrlJoin(Origin(site), prev_paths[i]) : i \in 1..Len(prev_paths)}
                   \cup {Origin(site)}
                   \cup {prev_normalize_url(Origin(site), a.href) :
                           a \in SeqSet(WebPage(Origin(site)).anchors)})) :
            Cardinality(d) <= MaxPrevDown}

\* scrape_linkedin_jobs_search(search_url): the set of the posting links of
\* the page, none without the browser
AgentScrape ==
    /\ pc = "agent"
    /\ \E c \in (IF PLAYWRIGHT_AVAILABLE THEN PrevListingContents ELSE {<<>>}) :
         /\ content' = c
         /\ agent' = [agent EXCEPT !.job_urls = prev_posting_links(input_url, c)]
         /\ queue' \in Orders(prev_posting_links(input_url, c))
    /\ pc' = "agent_loop"
    /\ UNCHANGED <<args, fetch, norm, job_urls, prev, scrolls, posting_vars, csv, out, trail, calls, result>>

\* page.goto or page.evaluate raises in scrape_linkedin_jobs_search: nothing catches it
AgentRaise ==
    /\ pc = "agent"
    /\ PLAYWRIGHT_AVAILABLE
    /\ pc' = "error"
    /\ UNCHANGED <<args, fetch, norm, agent, scrape_vars, queue, posting_vars, csv, out, trail, calls, result>>

\* one turn of the loop of run_agent, up to parse_linkedin_job; the posting
\* answers whatever its query string
AgentParse ==
    /\ pc = "agent_loop"
    /\ queue # <<>>
    /\ job_url' = Head(queue)
    /\ queue' = Tail(queue)
    /\ \E rendered \in (IF PLAYWRIGHT_AVAILABLE
                        THEN PostingAnswers(Rendered, before_query(Head(queue)))
                        ELSE {NoResponse}),
          static \in PostingAnswers(Static, before_query(Head(queue))) :
         /\ company_name' = parse_linkedin_job(Head(queue), rendered, static)[1]
         /\ company_website' = parse_linkedin_job(Head(queue), rendered, static)[2]
    /\ career_page' = None /\ job_opening' = None
    /\ pc' = "agent_locate"
    /\ UNCHANGED <<args, fetch, norm, agent, scrape_vars, csv, out, trail, calls, result>>

\* the rest of the turn: the guess, find_career_page,
\* extract_one_job_from_career and results.append
AgentLocate ==
    /\ pc = "agent_locate"
    /\ company_website' = prev_site_or_guess(company_name, company_website)
    /\ \E d \in PrevDowns(company_website') :
         /\ career_page' = prev_find_career_page(company_website', d)
         /\ job_opening' = IF Truthy(career_page') THEN prev_extract_one_job(career_page', d)
                           ELSE None
    /\ agent' = [agent EXCEPT !.results =
                   Append(@, Row(company_name, company_website', career_page', job_opening'))]
    /\ pc' = "agent_loop"
    /\ UNCHANGED <<args, fetch, norm, scrape_vars, queue, job_url, company_name, csv, out, trail, calls, result>>

\* after the loop: the file is written anew, the header and every result
AgentSave ==
    /\ pc = "agent_loop"
    /\ queue = <<>>
    /\ agent' = [agent EXCEPT !.file = [exists |-> TRUE, lines |-> <<Header>> \o agent.results]]
    /\ pc' = "done"
    /\ UNCHANGED <<args, fetch, norm, scrape_vars, queue, posting_vars, csv, out, trail, calls, result>>

(***************************************************************************)
(* safe_get, attempt by attempt                                            *)
(***************************************************************************)
MAX_RETRIES == 3
MaxFetches == 2

\* what safe_get does, in order: a request and how it ended, a sleep and its seconds
Get(ok) == [ev |-> "get", ok |-> ok, secs |-> 0]
Sleep(secs) == [ev |-> "sleep", ok |-> FALSE, secs |-> secs]

\* what one requests.get of the URL may end in: the response at the end of its
\* redirects (an error status makes raise_for_status raise), or an exception
Answers(url) == {WebPage(Redirect(url)), NoResponse}

\* a variant that sleeps one second after every failed attempt
backoff_flat(attempt) == 1

\* the seconds slept after the failed attempt
backoff(attempt) == 1 + attempt

\* safe_get(url) is called: the first call of the run, or the next fetch
SafeGetCall ==
    /\ pc \in {"get", "returned"}
    /\ fetch.calls < MaxFetches
    /\ input_url' \in (IF pc = "get" THEN {input_url} ELSE FetchURLs)
    /\ fetch' = [attempt |-> 0, log |-> <<>>, ret |-> NoResponse,
                 calls |-> fetch.calls + 1, spent |-> fetch.spent]
    /\ pc' = "attempt"
    /\ UNCHANGED <<entry, use_playwright, PLAYWRIGHT_AVAILABLE, max_scrolls, norm, agent, scrape_vars, queue,
                   posting_vars, csv, out, trail, calls, result>>

\* one turn of `for attempt in range(MAX_RETRIES)`: the request, then the
\* return of its response or the sleep after its failure
SafeGetAttempt ==
    /\ pc = "attempt"
    /\ fetch.attempt < MAX_RETRIES
    /\ \E r \in Answers(input_url) :
         IF r.ok
         THEN /\ fetch' = [fetch EXCEPT !.log = Append(@, Get(TRUE)), !.ret = r, !.spent = @ + 1]
              /\ pc' = "returned"
         ELSE /\ fetch' = [fetch EXCEPT !.log = @ \o <<Get(FALSE), Sleep(backoff(fetch.attempt))>>,
                                        !.attempt = @ + 1, !.spent = @ + 1]
              /\ pc' = "attempt"
    /\ UNCHANGED <<args, norm, agent, scrape_vars, queue, posting_vars, csv, out, trail, calls, result>>

\* the range is used up: return None
SafeGetExhausted ==
    /\ pc = "attempt"
    /\ fetch.attempt >= MAX_RETRIES
    /\ fetch' = [fetch EXCEPT !.ret = NoResponse]
    /\ pc' = "returned"
    /\ UNCHANGED <<args, norm, agent, scrape_vars, queue, posting_vars, csv, out, trail, calls, result>>

(***************************************************************************)
(* normalize_url, applied to an href and then to its own result            *)
(***************************************************************************)
\* normalize_url(base, href)
Normalize ==
    /\ pc = "normalize"
    /\ norm' = [norm EXCEPT !.once = normalize_url(input_url, norm.href)]
    /\ pc' = "normalized"
    /\ UNCHANGED <<args, fetch, agent, scrape_vars, queue, posting_vars, csv, out, trail, calls, result>>

\* normalize_url(base, u) for the URL u the first call returned
NormalizeAgain ==
    /\ pc = "normalized"
    /\ norm.once # None
    /\ norm' = [norm EXCEPT !.twice = normalize_url(input_url, norm.once)]
    /\ pc' = "renormalized"
    /\ UNCHANGED <<args, fetch, agent, scrape_vars, queue, posting_vars, csv, out, trail, calls, result>>

Next ==
    \/ AgentScrape \/ AgentRaise \/ AgentParse \/ AgentLocate \/ AgentSave
    \/ Normalize \/ NormalizeAgain
    \/ SafeGetCall \/ SafeGetAttempt \/ SafeGetExhausted
    \/ Main \/ Discovered \/ Loop \/ PoliteDelay
    \/ ScrapeEnter \/ ScrapeRaise \/ Scroll \/ ScrapeReturn
    \/ StepA \/ StepB \/ StepC \/ StepD \/ StepE \/ StepF \/ StepF2 \/ StepG \/ StepG2 \/ Save

Spec == Init /\ [][Next]_vars

(***************************************************************************)
(* Properties                                                              *)
(***************************************************************************)
Last(s) == s[Len(s)]

\* the step named has acted on the current posting
Did(step) == \E i \in 1..Len(trail) : trail[i] = step

\* process_single_job has just returned, with or without a row
Ended == trail # <<>> /\ Last(trail) \in {"save", "skip"}
Emitted == trail # <<>> /\ Last(trail) = "save"

\* the URL ends, after its redirects, on the aggregator's domain
OnAggregator(u) == is_linkedin_domain(Redirect(u))

\* the data rows of the output file
DataRows(file) == SelectSeq(file.lines, LAMBDA l : l # Header)

\* C1. Domain-leak-freedom: in every row process_single_job emits, none of
\* company_website, career_page and job_url ends, after its redirects, on
\* the aggregator's domain.
C1_DomainLeakFreedom ==
    Emitted => /\ ~OnAggregator(result.company_website)
               /\ ~OnAggregator(result.career_page)
               /\ ~OnAggregator(result.job_url)

\* C2. Career-page-gates-emission: the career page that reaches the end of
\* process_single_job is never on the aggregator's domain; the call appends
\* a row if and only if that career page is non-empty, and otherwise leaves
\* the file as it is and returns None.  A locator result that is absent or
\* on the aggregator's domain leaves no career page.
C2_CareerPageGatesEmission ==
    /\ [](pc \in {"G", "G2", "save"} /\ Truthy(career_page) => ~is_linkedin_domain(career_page))
    /\ [][pc = "F2" /\ (~Truthy(career_page) \/ is_linkedin_domain(career_page))
            => ~Truthy(career_page')]_vars
    /\ [][(pc \in {"G", "G2"}) => (career_page' = career_page)]_vars
    /\ [][pc = "save" =>
            IF Truthy(career_page)
            THEN /\ Len(DataRows(csv')) = Len(DataRows(csv)) + 1
                 /\ result' = Last(csv'.lines)
                 /\ result'.career_page = career_page
            ELSE /\ csv' = csv
                 /\ (result' = None)]_vars
    /\ [][pc # "save" => (csv' = csv)]_vars

\* a posting whose located career page was on the aggregator's domain has
\* ended without a row
C2_Witness ==
    /\ Ended /\ ~Emitted /\ result = None
    /\ Did("locate") /\ out.stage \in {"path", "home", "footer", "ats"}
    /\ is_linkedin_domain(out.val)

\* the slug guess: "https://www." and the lower-cased name without the
\* characters outside [a-z0-9-.]
SlugGuess(name) == "https://www." \o Filter(Lower(name), SlugChars)

\* what a step of the fallback chain of the candidate site does; named:
\* whether the search and the guess are only expected of a posting with a
\* company name
SiteChain(named) ==
    /\ pc = "C" /\ Truthy(company_website)
         => /\ Last(trail') = "resolve"
            /\ out'.log # <<>> /\ out'.log[1].why = "resolve" /\ out'.log[1].u = company_website
            /\ company_name' = company_name
            /\ company_website' = (IF is_linkedin_domain(out'.val) THEN None ELSE out'.val)
    /\ pc = "D" /\ Did("resolve") /\ ~Truthy(company_website) /\ (named => Truthy(company_name))
         => /\ Last(trail') = "search"
            /\ company_name' = company_name
            /\ company_website' = (IF out'.val = None \/ is_linkedin_domain(out'.val)
                                   THEN company_website ELSE out'.val)
    /\ pc = "E" /\ Did("resolve") /\ ~Truthy(company_website) /\ (named => Truthy(company_name))
         => /\ Last(trail') = "guess"
            /\ company_website' = SlugGuess(company_name)
    /\ pc = "F" /\ Last(trail) = "guess"
         => /\ Last(trail') = "locate"
            /\ company_website' = company_website
            /\ out'.log[1].why = "resolve" /\ out'.log[1].u = company_website

\* C3 as stated. Site validation fallback chain: the candidate site goes
\* through the resolver; a site that resolves to the aggregator's domain is
\* dropped and the name kept, and the search is attempted; when the search
\* gives nothing, or something on the aggregator's domain, the site becomes
\* the slug guess, which goes to the locator as it is.
C3_AsStated == [][SiteChain(FALSE)]_vars

\* C3, amended. The same chain, for a posting that has a company name; a
\* posting without one gets no search and no guess, and its site stays empty.
C3_SiteFallbackChain ==
    [][/\ SiteChain(TRUE)
       /\ (pc \in {"D", "E"}) /\ ~Truthy(company_website) /\ ~Truthy(company_name)
            => ~Truthy(company_website') /\ trail' = trail]_vars

\* the locator has been called with a slug guess, made after a site on the
\* aggregator's domain was dropped and the search gave nothing usable
C3_Witness ==
    /\ pc = "F2" /\ Last(trail) = "locate"
    /\ Did("resolve") /\ Did("search") /\ Did("guess")
    /\ company_website = SlugGuess(company_name)

\* C4. Absence of a job opening does not abandon the posting: with a career
\* page that passed the aggregator check, process_single_job appends exactly
\* one row, and when the extractor returned None or a URL on the aggregator's
\* domain that row's job_url is the empty string.
C4_NoOpeningStillEmits ==
    /\ [](pc = "save" /\ Truthy(career_page)
            => /\ Last(trail) = "extract"
               /\ (out.val = None \/ is_linkedin_domain(out.val) => job_opening = None)
               /\ (out.val # None /\ ~is_linkedin_domain(out.val) => job_opening = out.val))
    /\ [][pc = "save" /\ Truthy(career_page)
            => /\ Len(DataRows(csv')) = Len(DataRows(csv)) + 1
               /\ result' = Last(csv'.lines)
               /\ result'.career_page = career_page
               /\ result'.job_url = (IF job_opening = None THEN "" ELSE job_opening)]_vars

\* a row with an empty job_url was emitted after the extractor returned a URL
\* on the aggregator's domain
C4_Witness ==
    /\ Emitted /\ result.job_url = "" /\ result.career_page # ""
    /\ out.stage = "anchor" /\ is_linkedin_domain(out.val)

\* the positions of the requests made for the reason why
Idx(log, why) == {i \in 1..Len(log) : log[i].why = why}

\* the place of a request's stage in the order of find_career_page
Rank(why) ==
    CASE why = "resolve" -> 0
      [] why = "path" -> 1
      [] why \in {"home", "anchor"} -> 2
      [] why = "footer" -> 3
      [] OTHER -> 4

\* the stage a candidate request belongs to
StageOf(why) == IF why = "anchor" THEN "home" ELSE why

\* the logged request is a validated hit of its stage
LogHit(e) ==
    CASE e.why \in {"path", "anchor"} ->
           e.ok /\ AnyIn(CAREER_KEYWORDS \o JOB_KEYWORDS, e.page.lower)
      [] e.why = "footer" -> e.ok
      [] OTHER -> FALSE

\* the requests come stage after stage, and a validated hit is the last
\* request and the result
FirstHitReturned(o) ==
    /\ \A i, j \in 1..Len(o.log) : i < j => Rank(o.log[i].why) <= Rank(o.log[j].why)
    /\ \A i \in 1..Len(o.log) :
         LogHit(o.log[i]) => i = Len(o.log) /\ o.val = o.log[i].u /\ o.stage = StageOf(o.log[i].why)
    /\ o.stage \in {"path", "home", "footer"} => o.log # <<>> /\ LogHit(Last(o.log))
    /\ o.val = None <=> o.stage = "none"

\* the path candidates are tried in the order of the list, all of them
\* before the homepage is fetched
PathsInOrder(log, before) ==
    /\ \A i \in Idx(log, "path") :
         i - before \in 1..Len(paths) /\ log[i].u = Origin(log[i].u) \o paths[i - before]
    /\ Idx(log, "home") # {} => Cardinality(Idx(log, "path")) = Len(paths)

\* the stages that read the homepage fetched by the request at h: the anchor
\* candidates in document order, then the footer candidates in document
\* order once every anchor candidate failed, then the scripts once every
\* footer candidate failed
HomeStages(o, h, anchors, footers) ==
    /\ Idx(o.log, "home") = {h}
    /\ ~o.log[h].ok => h = Len(o.log) /\ o.val = None
    /\ \A i \in Idx(o.log, "anchor") :
         i - h \in 1..Len(anchors) /\ o.log[i].u = anchors[i - h]
    /\ \A i \in Idx(o.log, "footer") :
         i - h - Len(anchors) \in 1..Len(footers) /\ o.log[i].u = footers[i - h - Len(anchors)]
    /\ Idx(o.log, "footer") # {} => Cardinality(Idx(o.log, "anchor")) = Len(anchors)
    /\ o.log[h].ok /\ o.stage \in {"ats", "none"}
         => /\ Cardinality(Idx(o.log, "anchor")) = Len(anchors)
            /\ Cardinality(Idx(o.log, "footer")) = Len(footers)
            /\ o.val = script_scan(o.log[h].page.scripts)

\* the stages of find_career_page, read off the requests it made
StageOrder(o) ==
    /\ FirstHitReturned(o)
    /\ PathsInOrder(o.log, Cardinality(Idx(o.log, "resolve")))
    /\ \A h \in Idx(o.log, "home") :
         HomeStages(o, h, career_anchors(o.log[h].u, o.log[h].page.anchors),
                    footer_targets(o.log[h].u, FooterAnchors(o.log[h].page.anchors)))
    /\ Idx(o.log, "home") = {} => o.stage = "path"

\* find_career_page has just returned to process_single_job
Located == pc = "F2" /\ trail # <<>> /\ Last(trail) = "locate"

\* C5. Career Page Locator stage order: find_career_page tries the path
\* guess, the homepage scan, the footer scan and the embedded-ATS scan in
\* that order and returns the first validated hit; a stage is consulted only
\* after every candidate of the earlier stages failed, the candidates of a
\* stage are tried in list or document order, and the result is None exactly
\* when no stage succeeds.
C5_LocatorStageOrder == Located => StageOrder(out)

\* the locator came to the embedded-ATS scan after path, anchor and footer
\* candidates had all failed
C5_Witness ==
    /\ Located /\ out.stage = "ats"
    /\ Cardinality(Idx(out.log, "path")) = Len(paths)
    /\ Idx(out.log, "anchor") # {} /\ Idx(out.log, "footer") # {}

\* C6. The Career Page Locator rejects a candidate whose final resolved
\* domain is the aggregator's and searches on: for a company site off the
\* aggregator's domain, what find_career_page returns never ends on the
\* aggregator's domain.
C6_LocatorRejectsAggregator ==
    Located /\ ~OnAggregator(company_website) /\ out.val # None => ~OnAggregator(out.val)

\* extract_one_job_from_career has just returned to process_single_job
Extracted == pc = "G2" /\ trail # <<>> /\ Last(trail) = "extract"

\* the positions of the first anchor that qualifies as a job link
FirstJobLink(c, as) ==
    {i \in 1..Len(as) :
       /\ job_link(normalize_url(c, as[i].href), as[i])
       /\ \A j \in 1..(i - 1) : ~job_link(normalize_url(c, as[j].href), as[j])}

\* the logged probe is reachable and holds a job keyword
ProbeHit(e) == e.why = "probe" /\ e.ok /\ AnyIn(JOB_KEYWORDS, e.page.lower)

\* the probes of /jobs, /openings, /careers/jobs in that order, up to the
\* first hit, which is the result; None when all of them failed
ProbesInOrder(o, c) ==
    /\ \A i \in 2..Len(o.log) :
         /\ i - 1 <= Len(job_paths)
         /\ o.log[i].why = "probe" /\ o.log[i].u = Origin(c) \o job_paths[i - 1]
         /\ ProbeHit(o.log[i]) => i = Len(o.log) /\ o.val = o.log[i].u
    /\ IF ProbeHit(Last(o.log)) THEN o.val = Last(o.log).u
       ELSE o.val = None /\ Len(o.log) = 1 + Len(job_paths)

\* the fallback order of the extractor on the career page c whose anchors
\* are as, read off the result and the requests
FallbackOrder(o, c, as) ==
    /\ o.log # <<>> /\ o.log[1].why = "career" /\ o.log[1].u = c
    /\ IF FirstJobLink(c, as) # {}
       THEN /\ \A i \in FirstJobLink(c, as) : o.val = normalize_url(c, as[i].href)
            /\ Len(o.log) = 1
       ELSE IF is_ats_url(c)
       THEN o.val = c /\ Len(o.log) = 1
       ELSE ProbesInOrder(o, c)

\* C7 as stated. Job Opening Extractor fallback order: the first qualifying
\* job anchor in document order; without one, the career page itself when
\* its host is a known ATS host; only otherwise the probes in order, else
\* None.  A career page on an ATS host without job anchors gives itself.
C7_AsStated == Extracted => FallbackOrder(out, career_page, out.log[1].page.anchors)

\* C7, amended. When the fetch of the career page fails the result is None
\* and nothing else is tried, ATS host or not; the fallback order is that of
\* a career page that was fetched.
C7_ExtractorFallbackOrder ==
    Extracted =>
       IF out.log[1].ok THEN FallbackOrder(out, career_page, out.log[1].page.anchors)
       ELSE out.val = None /\ Len(out.log) = 1 /\ out.log[1].u = career_page

\* a fetched career page on an ATS host without job anchors was returned as
\* the job opening
C7_Witness ==
    /\ Extracted /\ out.stage = "ats" /\ out.val = career_page
    /\ out.log[1].ok /\ is_ats_url(career_page)
    /\ FirstJobLink(career_page, out.log[1].page.anchors) = {}

\* one iteration of the scroll loop is taken
Iteration == pc = "scroll" /\ scrolls' = scrolls + 1

\* C8 as stated. Listing Expander termination: the scroll loop makes at most
\* max_scrolls iterations and stops at the first iteration that adds no
\* identifier, the very first one included.
C8_AsStated ==
    /\ [](scrolls <= max_scrolls /\ (pc = "scroll" => scrolls < max_scrolls))
    /\ [][Iteration => (pc' # "scroll" <=> job_urls' = job_urls \/ scrolls' = max_scrolls)]_vars

\* C8, amended. The loop makes at most max_scrolls iterations and stops at
\* the first iteration after the first one that adds no identifier; the
\* first iteration never stops it, unless max_scrolls is 1.
C8_ScrollLoopTermination ==
    /\ [](scrolls <= max_scrolls /\ (pc = "scroll" => scrolls < max_scrolls))
    /\ [][Iteration => (pc' # "scroll" <=> (scrolls >= 1 /\ job_urls' = job_urls)
                                            \/ scrolls' = max_scrolls)]_vars
    /\ [][pc = "scroll" => (scrolls' = scrolls + 1 /\ pc' \in {"scroll", "closing"}) \/ pc' = "error"]_vars

\* the loop went on after a first iteration that found no identifier
C8_Witness == pc = "scroll" /\ scrolls = 1 /\ job_urls = {}

\* C9. Fixed-point termination: when the loop is left, one more pass over
\* the same page content leaves job_urls unchanged, and no step ever removes
\* an identifier from job_urls.
C9_FixedPoint ==
    /\ [](pc = "closing" => collected(job_urls, search_url, content) = job_urls)
    /\ [][job_urls \subseteq job_urls']_vars

\* the loop was left through the stability condition with identifiers found
C9_Witness ==
    /\ pc = "closing" /\ scrolls < max_scrolls /\ job_urls # {}
    /\ prev = Cardinality(job_urls)

\* run_main was given a listing page
Listing == entry = "run_main" /\ ~Contains(Strip(input_url), "/jobs/view/")

TwoTier(val, log) ==
    /\ val # None
    /\ Len(log) \in {1, 2}
    /\ \A i \in 1..Len(log) : log[i].why = "resolve" /\ log[i].u = log[1].u
    /\ log[1].m = "HEAD"
    /\ log[1].ok <=> Len(log) = 1
    /\ Len(log) = 2 => log[2].m = "GET"
    /\ val = IF Last(log).ok THEN Redirect(log[1].u) ELSE log[1].u

\* resolve_final_url has just returned to Step C, or to Step D after a search
\* that found a site
ResolvedSite == pc = "D" /\ trail # <<>> /\ Last(trail) = "resolve"
ResolvedFound == pc = "E" /\ trail # <<>> /\ Last(trail) = "search" /\ out.stage = "found"

\* C11. Redirect Resolver two-tier contract: for a non-empty URL
\* resolve_final_url never returns None; it returns the final URL of the HEAD
\* request when that succeeds, else the final URL of the GET request when
\* that succeeds, else the input unchanged; the GET request is made only
\* after the HEAD request failed.
C11_ResolverTwoTier ==
    /\ ResolvedSite => TwoTier(out.val, out.log)
    /\ ResolvedFound => TwoTier(out.val, Tail(out.log))

\* both requests failed and the input came back unchanged
C11_Witness ==
    /\ ResolvedSite /\ Len(out.log) = 2
    /\ ~out.log[1].ok /\ ~out.log[2].ok /\ out.val = out.log[1].u

\* the static extraction acts in this step
StaticRuns == pc = "B" /\ trail' = Append(trail, "static")

\* what the static extraction of this step found: (company_name, company_site)
StaticFound == static_identity(out'.log[1].page)

\* C12. Identity Resolver step ordering: the static fetch extraction runs if
\* and only if, after the render step, the company name or the candidate site
\* is still missing; a field the render step filled is never overwritten, and
\* the static step fills only the missing fields, with what it found.
C12_StaticFillsOnlyMissing ==
    [][(pc = "B") =>
         /\ StaticRuns <=> (~Truthy(company_name) \/ ~Truthy(company_website))
         /\ ~StaticRuns => UNCHANGED <<company_name, company_website, trail>>
         /\ Truthy(company_name) => (company_name' = company_name)
         /\ Truthy(company_website) => (company_website' = company_website)
         /\ (StaticRuns /\ ~Truthy(company_name)) => (company_name' = StaticFound[1])
         /\ (StaticRuns /\ ~Truthy(company_website)) => (company_website' = StaticFound[2])]_vars

\* the render found a name and no site; the fetch found the site and another
\* name, and the rendered name was kept
C12_Witness ==
    /\ pc = "C" /\ trail = <<"render", "static">>
    /\ Truthy(company_name) /\ Truthy(company_website)
    /\ Truthy(static_identity(out.log[1].page)[1])
    /\ static_identity(out.log[1].page)[1] # company_name
    /\ static_identity(out.log[1].page)[2] = company_website

\* the steps of process_single_job before its save gate, each with the step
\* that follows it
StepAfter ==
    [s \in {"A", "B", "C", "D", "E", "F", "F2", "G", "G2"} |->
       CASE s = "A" -> "B" [] s = "B" -> "C" [] s = "C" -> "D" [] s = "D" -> "E"
         [] s = "E" -> "F" [] s = "F" -> "F2" [] s = "F2" -> "G" [] s = "G" -> "G2"
         [] s = "G2" -> "save"]

\* process_single_job is between its first step and its return
InPosting == pc \in (DOMAIN StepAfter) \cup {"save"}

\* the step named acts now, and every request it made for itself failed
Fails(step) ==
    /\ trail' = Append(trail, step)
    /\ \E i \in 1..Len(out'.log) : out'.log[i].why = step
    /\ \A i \in 1..Len(out'.log) : (out'.log[i].why = step) => ~out'.log[i].ok

\* a failed render, fetch, redirect or search leaves its step without a
\* finding: the fields stay as they were (a site that could not be resolved is
\* kept as it was, or dropped when it is on the aggregator)
Absorbed ==
    /\ (pc = "A" /\ Fails("render")) => UNCHANGED <<company_name, company_website>>
    /\ (pc = "B" /\ Fails("static")) => UNCHANGED <<company_name, company_website>>
    /\ (pc = "C" /\ Fails("resolve")) => (company_website' \in {company_website, None})
    /\ (pc = "D" /\ Fails("search")) => UNCHANGED <<company_name, company_website>>

\* C13. Per-posting failure absorption: inside process_single_job a fetch,
\* render, redirect or search failure is absence for that step only; no step
\* raises or returns early, every step is followed by the next one whatever
\* failed, and the last step ends the posting in exactly one of Emitted (a
\* row appended) and Abandoned (nothing appended).
C13_FailureAbsorption ==
    [][/\ (pc \in DOMAIN StepAfter) => (pc' = StepAfter[pc])
       /\ InPosting => ((InPosting' \/ pc' = AfterPosting) /\ pc' # "error")
       /\ Absorbed
       /\ (pc = "save") => /\ pc' = AfterPosting
                           /\ trail' \in {Append(trail, "save"), Append(trail, "skip")}
                           /\ (Last(trail') = "save") <=> (Len(csv'.lines) > Len(csv.lines))
                           /\ (Last(trail') = "skip") <=> (csv' = csv)]_vars

\* the render and the fetch of one posting both failed, and the posting still
\* went through every later step to its end
C13_Witness ==
    /\ Ended /\ trail = <<"render", "static", "skip">>
    /\ company_name = None /\ company_website = None
    /\ out.stage = "static" /\ ~Last(out.log).ok

\* C14. No failure other than a sink-write failure is fatal to the run: for a
\* listing input, a render failure or timeout while the listing page is
\* loaded or scrolled does not abort run_main, which never ends in an
\* exception that nothing caught.
C14_ListingFailureNotFatal == Listing => pc # "error"

\* the requests and the sleeps of the running call of safe_get
Gets == SelectSeq(fetch.log, LAMBDA e : e.ev = "get")
Sleeps == SelectSeq(fetch.log, LAMBDA e : e.ev = "sleep")

\* C15. Bounded retry with linear backoff: a call of safe_get makes at most 3
\* request attempts, returns the response of the first successful attempt
\* without a further attempt, returns None after 3 failed attempts, sleeps
\* (1 + attempt index) seconds after each failed attempt, and starts its
\* attempt counter at zero whatever the calls before it used up.
C15_BoundedRetry ==
    /\ [](/\ Len(Gets) <= MAX_RETRIES
          /\ \A i \in 1..Len(fetch.log) :
               /\ (fetch.log[i].ev = "get" /\ fetch.log[i].ok) =>
                     (i = Len(fetch.log) /\ pc = "returned" /\ fetch.ret.ok)
               /\ (fetch.log[i].ev = "get" /\ ~fetch.log[i].ok) =>
                     (i < Len(fetch.log) /\ fetch.log[i + 1].ev = "sleep")
               /\ (fetch.log[i].ev = "sleep") =>
                     (i > 1 /\ fetch.log[i - 1].ev = "get" /\ ~fetch.log[i - 1].ok)
          /\ \A k \in 1..Len(Sleeps) : Sleeps[k].secs = 1 + (k - 1)
          /\ (pc = "attempt") => (fetch.attempt = Len(Gets) /\ ~fetch.ret.ok)
          /\ (pc = "returned") =>
               /\ fetch.ret.ok <=> Last(fetch.log).ok
               /\ ~fetch.ret.ok => (Len(Gets) = MAX_RETRIES /\ Len(Sleeps) = MAX_RETRIES)
               /\ fetch.ret.ok => (fetch.ret = WebPage(Redirect(input_url))))
    /\ [][(pc # "attempt" /\ pc' = "attempt") => (fetch'.attempt = 0 /\ fetch'.log = <<>>)]_vars

\* a second call made all of its three attempts, and slept after each, after
\* a first call that had used up its three
C15_Witness ==
    /\ entry = "safe_get" /\ pc = "returned"
    /\ fetch.calls = 2 /\ fetch.spent = 2 * MAX_RETRIES
    /\ ~fetch.ret.ok /\ Len(Gets) = MAX_RETRIES
    /\ Sleeps = <<Sleep(1), Sleep(2), Sleep(3)>>

\* what one write adds to the file: the header when the file did not exist,
\* then one row
Written(file, row) == (IF file.exists THEN <<>> ELSE <<Header>>) \o <<row>>

\* C16. Output sink discipline: over any sequence of process_single_job calls
\* the header is written once, and only by the first write to a sink that
\* did not exist; each processed posting contributes at most one row; rows
\* are only appended, and no line already written is modified or removed.
C16_SinkDiscipline ==
    /\ [](/\ csv.exists => (csv.lines # <<>> /\ csv.lines[1] = Header)
          /\ \A i \in 2..Len(csv.lines) : csv.lines[i] # Header
          /\ Len(DataRows(csv)) <= calls
          /\ (InPosting /\ calls > 0) => (Len(DataRows(csv)) <= calls - 1))
    /\ [][(csv' # csv) =>
            /\ pc = "save" /\ csv'.exists
            /\ csv'.lines = csv.lines \o Written(csv, result')
            /\ result' # Header]_vars

\* a listing run wrote the header and then the rows of two postings to a sink
\* that did not exist
C16_Witness ==
    /\ Listing /\ Ended /\ calls = 2
    /\ Len(csv.lines) = 3 /\ csv.lines[1] = Header
    /\ csv.lines[3] = result /\ csv.lines[2] # result

\* the URL was the target of a successful fetch among the requests logged
Fetched(u, log) == \E i \in 1..Len(log) : log[i].m = "GET" /\ log[i].u = u /\ log[i].ok

\* C17. CareerPage reachability invariant: every career page find_career_page
\* returns, whichever stage produced it, was the target of a successful fetch
\* when it was discovered, and is not on the aggregator's domain.
C17_CareerPageReachable ==
    (Located /\ out.val # None) => (Fetched(out.val, out.log) /\ ~is_linkedin_domain(out.val))

\* the posting links among the hrefs of a page, and the identifier of one
PostingHrefs(hrefs) == {hrefs[i] : i \in {k \in 1..Len(hrefs) : Contains(hrefs[k], "/jobs/view/")}}
Identifier(href) == normalize_url(search_url, before_query(href))

\* C18. JobURLSet deduplication: the identifiers scrape_jobs_from_search_page
\* returns contain no duplicates; an identifier is the normalized URL of a
\* posting link with its query string stripped, so links that differ only in
\* the query string, or that are seen again in a later scroll iteration,
\* yield a single identifier.
C18_JobUrlsDeduplicated ==
    /\ [](\A u \in job_urls : u # None => ~Contains(u, "?"))
    /\ [][Iteration =>
            (job_urls' = job_urls \cup {Identifier(h) : h \in PostingHrefs(content')})]_vars
    /\ [][(pc = "discovered" /\ pc' = "loop") =>
            (Len(queue') = Cardinality(job_urls) /\ SeqSet(queue') = job_urls)]_vars

\* the last page showed posting 1 with another query string than the page that
\* showed postings 1 and 2 before it, and there are still two identifiers
C18_Witness ==
    /\ pc = "closing" /\ scrolls >= 2
    /\ content = <<"/jobs/search/?start=25", "/jobs/view/1?refId=a">>
    /\ job_urls = {"https://www.linkedin.com/jobs/view/1", "https://www.linkedin.com/jobs/view/2"}

\* process_single_job is entered now
Enters == calls' = calls + 1

\* C19. Sequential processing from a listing: run_main processes the
\* discovered postings one at a time; a posting is started only after the one
\* before it has reached Emitted or Abandoned and the inter-posting delay has
\* passed, so no two postings are ever under way together, and each row is
\* appended while its own posting is the one under way.
C19_SequentialProcessing ==
    /\ [](Listing /\ pc \in (DOMAIN StepAfter) \cup {"save", "sleep", "loop"} =>
            /\ calls + Len(queue) = Cardinality(job_urls)
            /\ (pc \in {"sleep", "loop"} /\ calls > 0) => Ended
            /\ Len(DataRows(csv)) <= calls)
    /\ [][Listing =>
            /\ Enters => (pc = "loop" /\ pc' = "A" /\ job_url' = Head(queue)
                          /\ (calls > 0 => Ended))
            /\ (pc = "save") => (pc' = "sleep")
            /\ (pc' = "loop") => (pc \in {"discovered", "sleep"})
            /\ (csv' # csv) => (pc = "save" /\ Last(csv'.lines) = result')]_vars

\* the second posting of a listing starts, after the first one left its row
C19_Witness ==
    /\ Listing /\ pc = "A" /\ calls = 2 /\ trail = <<>>
    /\ Len(DataRows(csv)) = 1

\* run_main was given a single posting
SinglePosting == entry = "run_main" /\ Contains(Strip(input_url), "/jobs/view/")

\* C20. Input classification: run_main takes the input for a single posting
\* exactly when it contains "/jobs/view/", and for a listing otherwise; for a
\* single posting the expander is never invoked and process_single_job is
\* called exactly once, with that reference; for a listing it is called once
\* for each identifier the expander returned.
C20_InputClassification ==
    /\ [](SinglePosting =>
            /\ pc \notin {"scrape", "scroll", "closing", "discovered", "loop", "sleep", "error"}
            /\ job_urls = {} /\ scrolls = 0
            /\ calls = (IF pc = "main" THEN 0 ELSE 1)
            /\ (calls = 1) => (job_url = Strip(input_url)))
    /\ [](Listing /\ pc = "done" => calls = Cardinality(job_urls) /\ queue = <<>>)
    /\ [][(entry = "run_main" /\ pc = "main") =>
            (Enters <=> Contains(Strip(input_url), "/jobs/view/"))]_vars
    /\ [][(Listing /\ Enters) =>
            (job_url' \in job_urls /\ job_url' \notin SeqSet(queue'))]_vars

\* a listing run ended after one call for each of the two identifiers found
C20_Witness ==
    /\ Listing /\ pc = "done" /\ calls = 2 /\ Cardinality(job_urls) = 2

\* the hrefs normalize_url gives no URL for: the empty one, and those that,
\* stripped, start with "#", "javascript:" or "mailto:" in any case
Rejected(href) ==
    \/ href = ""
    \/ StartsWith(Strip(href), "#")
    \/ StartsWith(Lower(Strip(href)), "javascript:")
    \/ StartsWith(Lower(Strip(href)), "mailto:")

\* C21. URL normalization is idempotent: when normalize_url(base, href)
\* returns a URL u, normalize_url(base, u) returns u again; and normalize_url
\* returns absence for the empty href and for hrefs that start with "#",
\* "javascript:" or "mailto:".
C21_NormalizeIdempotent ==
    /\ (pc \in {"normalized", "renormalized"}) => (norm.once = None <=> Rejected(norm.href))
    /\ (pc = "renormalized") => (norm.twice = norm.once)

\* C22. In the earlier pipeline (run_agent of part2_agent_prev.py) a row is
\* written to the output for a posting only if the posting's career page is
\* non-empty: no line of the written file but the header has an empty
\* career_page.
C22_PrevRowNeedsCareerPage ==
    \A i \in 1..Len(agent.file.lines) :
        agent.file.lines[i] = Header \/ agent.file.lines[i].career_page # ""

\* C23. Every identifier scrape_jobs_from_search_page returns is a non-null
\* absolute URL containing "/jobs/view/" and without a query string,
\* whatever the anchors of the rendered page, so process_single_job is never
\* called with a null reference.
C23_IdentifiersAreUrls ==
    /\ \A u \in job_urls :
         u # None /\ HasScheme(u) /\ Contains(u, "/jobs/view/") /\ ~Contains(u, "?")
    /\ (Listing /\ calls > 0) => job_url # None

\* the loop is left after this iteration
Exits == Iteration /\ pc' # "scroll"
\* this iteration left the set as large as the iteration before it did
SameSize == scrolls >= 1 /\ Cardinality(job_urls') = Cardinality(job_urls)
\* the expander returns normally after a page that never showed a posting link
NoPostingLinks == pc = "closing" /\ job_urls = {}

\* C24 as stated. The stability check compares only against the count of the
\* previous iteration: with max_scrolls >= 2 the loop never exits after a
\* single iteration; it exits after iteration k >= 2 exactly when the set is
\* as large after iteration k as after iteration k-1; and a page with no
\* posting links costs exactly two iterations.
C24_AsStated ==
    /\ [][(Iteration /\ max_scrolls >= 2 /\ scrolls = 0) => ~Exits]_vars
    /\ [][(Iteration /\ max_scrolls >= 2 /\ scrolls >= 1) => (Exits <=> SameSize)]_vars
    /\ []((NoPostingLinks /\ max_scrolls >= 2) => scrolls = 2)

\* C24, amended. With max_scrolls >= 2 the loop never exits after a single
\* iteration; it exits after iteration k >= 2 exactly when the set is as
\* large after iteration k as after iteration k-1 or k is max_scrolls, the
\* last iteration there is; and a page with no posting links costs exactly
\* two iterations.
C24_StabilityCheck ==
    /\ [][(Iteration /\ max_scrolls >= 2 /\ scrolls = 0) => ~Exits]_vars
    /\ [][(Iteration /\ max_scrolls >= 2 /\ scrolls >= 1)
            => (Exits <=> SameSize \/ scrolls' = max_scrolls)]_vars
    /\ []((NoPostingLinks /\ max_scrolls >= 2) => scrolls = 2)

\* the loop was left after the second of three iterations allowed, on a page
\* with no posting links
C24_Witness == NoPostingLinks /\ scrolls = 2 /\ max_scrolls = 3 /\ prev = 0

\* the step named is taken now
Does(step) == trail' = Append(trail, step)
\* the requests of the web search in a log
Searches(log) == {i \in 1..Len(log) : log[i].why = "search"}
\* neither a company name nor a site is known
NoIdentity == ~Truthy(company_name) /\ ~Truthy(company_website)

\* C25. Fallback guards in process_single_job: the web search is invoked at
\* most once per posting, and only when the site is empty after the redirect
\* validation and the company name is not; the slug guess is made only when
\* the site is still empty and the company name is not; and when both are
\* empty after the identity resolution there is no search, no guess and no
\* career-page fetch, and the posting is abandoned with no row.
C25_FallbackGuards ==
    /\ [][Does("search") =>
            /\ pc = "D" /\ ~Truthy(company_website) /\ Truthy(company_name)
            /\ ~Did("search") /\ Cardinality(Searches(out'.log)) = 1]_vars
    /\ [][Does("guess") =>
            pc = "E" /\ ~Truthy(company_website) /\ Truthy(company_name)]_vars
    /\ [][(pc \in {"C", "D", "E", "F", "F2", "G", "G2"} /\ NoIdentity) =>
            /\ trail' = trail /\ out' = out /\ csv' = csv
            /\ NoIdentity' /\ career_page' = None /\ job_opening' = None]_vars
    /\ [][(pc = "save" /\ NoIdentity) =>
            (Does("skip") /\ csv' = csv /\ result' = None)]_vars

\* a posting that gave neither a name nor a site was abandoned after the
\* identity resolution alone, and nothing was written
C25_Witness ==
    /\ Ended /\ NoIdentity /\ trail = <<"render", "static", "skip">>
    /\ entry = "process_single_job" /\ DataRows(csv) = <<>>
====
